---- MODULE Spec2Model ----
(***************************************************************************)
(* Model of the NeuroLabel operator-confidence core:                       *)
(*   - web/fnirs_live_service.py : FnirsLiveService (live session state    *)
(*     machine, rolling buffer, delayed heatmap emission, subscriber       *)
(*     fan-out with drop-oldest queues);                                   *)
(*   - neurolabel/brain/fnirs/windows.py : sample-rate estimate and the    *)
(*     sliding-window iteration used by the live emission tick;            *)
(*   - oc_scorer.py : the batch scorers compute_oc_scores_eeg/_fnirs.      *)
(*                                                                         *)
(* Time is counted in half seconds (TicksPerSec = 2), so that the 6.5 s    *)
(* display delay is the integer 13.  Threads are numbered: workers are     *)
(* 1..MaxSessions (the worker of session n is thread n), request threads   *)
(* are 101.., the extra emission ticker is 200.  0 is "no thread"/None.    *)
(***************************************************************************)
EXTENDS Integers, Sequences, FiniteSets, TLC

\* ---------------------------------------------------------------- bounds
MaxSessions == 2      \* successful connect() calls explored
MaxCallers == 1       \* request threads calling connect()/disconnect()
MaxSubs == 1          \* subscribe() calls explored
MaxSamples == 2       \* samples appended per session in the full service
TickSamples == 9      \* samples appended per session where ticks are studied
QueueMaxsize == 2     \* capacity of a subscriber queue (200 in the code)

\* ------------------------------------------------------ program constants
TicksPerSec == 2          \* model time unit: half a second
DisplayDelay == 13        \* _display_delay_sec = 6.5 s
RetentionTicks == 600     \* 300.0 s retention horizon of _append_sample
StatusPeriod == 2         \* 1.0 s status throttle of _append_sample
MinRows == 8              \* len(rows) < 8 guard of the emission tick
NominalRate == 11         \* "or 11" fallback sample rate
NegInf == -1              \* float('-inf'): below every timestamp

Workers == 1..MaxSessions
Callers == 101..(100 + MaxCallers)
Ticker == 200
Threads == Workers \cup Callers \cup {Ticker}
Queues == 1..MaxSubs

VARIABLES
    \* FnirsLiveService fields
    lock,               \* owner of self._lock (0: free)
    subscribers,        \* self._subscribers
    worker_thread,      \* self._worker_thread (0: None)
    stop_event,         \* self._stop_event.is_set()
    connected, streaming, mock_mode,
    session_id,         \* 0: None
    last_error,         \* FALSE: None
    sample_count, last_status_emit,
    rows,               \* timestamps of self._rows, in append order
    latest_sensor_ts, last_emitted_window_ts,
    mesh_loaded,        \* _mesh_json and _mapping_json are set
    \* environment
    queue,              \* contents of every queue.Queue ever created
    nqueues,            \* queues created so far
    clock,              \* time.time()
    \* per thread
    pc, pay, bq, bstep, cur, ret, snap,
    outcome,            \* what the thread's last connect() did
    \* one call of compute_oc_scores
    sc_in,              \* the CSV and the arguments: mode, rows, gap, trim_before
    sc_pc,              \* position in the call
    timestamps,         \* the timestamps kept by the trim_before filter
    sample_rate,        \* the detected sample rate
    start,              \* the loop variable of the sliding window
    engagement_indices, fatigue_indices,
    results,            \* the returned list
    \* across the calls of compute_oc_scores on one CSV
    csv_indices,        \* what the rows of the CSV give, by window start
    first_results,      \* the list the first call returned
    ncalls,             \* calls that have returned and were followed by another
    output_path,        \* the argument output_path is not None
    include_timestamp_in_csv,
    out_file,           \* the file at output_path
    \* one call of a function that keeps no state
    fn_in,              \* the function and its arguments
    fn_pc,              \* "idle", "call", "returned" or "raised"
    fn_out,             \* what it returned, or the exception it raised
    \* observation
    stamped             \* status events are stamped with the time of their making

liveVars == <<lock, subscribers, worker_thread, stop_event, connected, streaming,
              mock_mode, session_id, last_error, sample_count, last_status_emit,
              rows, latest_sensor_ts, last_emitted_window_ts, mesh_loaded,
              queue, nqueues, clock, pc, pay, bq, bstep, cur, ret, snap, outcome>>

csvV == <<output_path, include_timestamp_in_csv, out_file>>

callV == <<csv_indices, first_results, ncalls, csvV>>

scoreVars == <<sc_in, sc_pc, timestamps, sample_rate, start,
               engagement_indices, fatigue_indices, results, callV>>

\* what the steps of the live service, and of the scorer, leave alone
fnVars == <<fn_in, fn_pc, fn_out>>

restLive == <<scoreVars, fnVars, stamped>>
restScore == <<liveVars, fnVars, stamped>>
restFn == <<liveVars, scoreVars, stamped>>

vars == <<liveVars, scoreVars, fnVars, stamped>>

\* ------------------------------------------------------------- helpers
NoPay == [type |-> "none", sid |-> 0, ts |-> 0, now |-> 0, msg |-> ""]
NoSnap == [rows |-> <<>>, latest |-> 0, last |-> NegInf, sid |-> 0]

Max(a, b) == IF a >= b THEN a ELSE b
Min(a, b) == IF a <= b THEN a ELSE b

Alive(w) == w # 0 /\ pc[w] \notin {"unborn", "done"}
AliveWorkers == {w \in Workers : Alive(w)}

\* round(num/den) as Python 3 rounds: to nearest, ties to even (den > 0, num >= 0)
RoundHalfEven(num, den) ==
    LET q == num \div den
        r == num % den
    IN  IF 2 * r < den THEN q
        ELSE IF 2 * r > den THEN q + 1
        ELSE IF q % 2 = 0 THEN q ELSE q + 1

\* ------------------------------------------------ series and windows
\* np.argsort + timestamps[order]: the timestamps in ascending order
RECURSIVE InsertSorted(_, _)
InsertSorted(s, x) ==
    IF s = <<>> THEN <<x>>
    ELSE IF x < Head(s) THEN <<x>> \o s
    ELSE <<Head(s)>> \o InsertSorted(Tail(s), x)

\* (prefix and s, the sorted prefix, are bound so that each is computed once)
RECURSIVE series_from_rows(_)
series_from_rows(rs) ==
    IF rs = <<>> THEN <<>>
    ELSE CHOOSE r \in {InsertSorted(s, rs[Len(rs)]) :
                        s \in {series_from_rows(prefix) :
                                  prefix \in {SubSeq(rs, 1, Len(rs) - 1)}}} : TRUE

\* FnirsRawSeries.duration_sec, in ticks
duration_ticks(ts) == IF Len(ts) < 2 THEN 0 ELSE ts[Len(ts)] - ts[1]

\* FnirsRawSeries.sample_rate_est_hz is 0.0 (falsy) exactly when this holds
RateUnknown(ts) == Len(ts) < 2 \/ duration_ticks(ts) <= 0

\* sample_rate of iter_windows: max(1, int(round(sample_rate_est_hz or 11)))
WindowRate(ts) ==
    IF RateUnknown(ts) THEN NominalRate
    ELSE Max(1, RoundHalfEven((Len(ts) - 1) * TicksPerSec, duration_ticks(ts)))

\* window_samples = max(1, round(rate * window_sec)), window_sec = 4
window_samples(ts) == Max(1, WindowRate(ts) * 4)

\* stride_samples = max(1, round(rate * stride_sec)), stride_sec = 0.25
stride_samples(ts) == Max(1, RoundHalfEven(WindowRate(ts), 4))

\* number of windows iter_windows yields
NumWindows(ts) ==
    IF Len(ts) < 2 \/ Len(ts) < window_samples(ts) THEN 0
    ELSE (Len(ts) - window_samples(ts)) \div stride_samples(ts) + 1

\* FnirsWindow.mid_timestamp of the k-th window (k = 1..NumWindows)
mid_timestamp(ts, k) ==
    ts[(k - 1) * stride_samples(ts) + (window_samples(ts) \div 2) + 1]

\* seq.windows of compute_window_metrics_sequence: the window timestamps in order
WindowTimestamps(ts) == [k \in 1..NumWindows(ts) |-> mid_timestamp(ts, k)]

\* the test of the candidate loop of _emit_delayed_heatmap_if_ready
Eligible(ts, cutoff, last) == ts <= cutoff /\ ts > last

\* mutant of CandidateIndex: the loop stops at the first window that passes
CandidateIndexFirst(wts, cutoff, last) ==
    LET ok == {k \in 1..Len(wts) : Eligible(wts[k], cutoff, last)}
    IN  IF ok = {} THEN 0 ELSE CHOOSE k \in ok : \A j \in ok : k <= j

\* "for m in seq.windows: if ...: candidate = m": the last window that passes
\* the test, 0 when none does
CandidateIndex(wts, cutoff, last) ==
    LET ok == {k \in 1..Len(wts) : Eligible(wts[k], cutoff, last)}
    IN  IF ok = {} THEN 0 ELSE CHOOSE k \in ok : \A j \in ok : j <= k

\* the candidate timestamp of a tick that took snapshot sn (0: the tick returns
\* early): ts is the series, wts the window timestamps of seq.windows, k the
\* index of the candidate, each bound to its value once
Candidate(sn) ==
    IF Len(sn.rows) < MinRows THEN 0
    ELSE CHOOSE c \in
            {IF k = 0 THEN 0 ELSE wts[k] :
                <<wts, k>> \in
                    {<<w, CandidateIndex(w, sn.latest - DisplayDelay, sn.last)>> :
                        w \in {WindowTimestamps(ts) : ts \in {series_from_rows(sn.rows)}}}} : TRUE

\* mutant of Prune: nothing is dropped
PruneNone(rs, cutoff) == rs

\* _append_sample's pruning loop
RECURSIVE Prune(_, _)
Prune(rs, cutoff) ==
    IF Len(rs) > 2 /\ rs[1] < cutoff THEN Prune(Tail(rs), cutoff) ELSE rs

\* ------------------------------------------------ queue.Queue operations
\* mutant of Full: a queue built without maxsize is never full
FullNever(q) == FALSE

Full(q) == Len(queue[q]) >= QueueMaxsize

\* q.put_nowait(x) when it does not raise queue.Full
PutNowait(q, x) == [queue EXCEPT ![q] = Append(@, x)]

\* q.get_nowait(), an empty queue raises queue.Empty and nothing changes
GetNowait(q) == [queue EXCEPT ![q] = IF @ = <<>> THEN @ ELSE Tail(@)]

\* ------------------------------------------------ payloads
\* An event is its type, the session it belongs to (session_id of the status
\* payloads; for the other events a tag the formulas below read), for a heatmap
\* frame display_ts (ts) and sensor_now_ts (now), for a status event the time
\* at which status() built it (now, where an observer stamps the events), and
\* the 'message' of disconnect()'s status event.
StatusEvent(msg) ==
    [type |-> "fnirs_status", sid |-> session_id, ts |-> 0,
     now |-> IF stamped THEN clock ELSE 0, msg |-> msg]
SampleStatsEvent ==
    [type |-> "fnirs_sample_stats", sid |-> session_id, ts |-> 0, now |-> 0, msg |-> ""]
ErrorEvent ==
    [type |-> "fnirs_error", sid |-> session_id, ts |-> 0, now |-> 0, msg |-> ""]
MeshInitEvent ==
    [type |-> "fnirs_mesh_init", sid |-> 0, ts |-> 0, now |-> 0, msg |-> ""]
HeatmapEvent(sn, cand) ==
    [type |-> "fnirs_heatmap_frame", sid |-> sn.sid, ts |-> cand, now |-> sn.latest,
     msg |-> ""]

\* ------------------------------------------------ variable groups
flagV == <<connected, streaming, last_error>>
sessV == <<worker_thread, mock_mode, session_id, mesh_loaded>>
bufV == <<sample_count, last_status_emit, rows, latest_sensor_ts>>
subV == <<subscribers, nqueues>>
bcastV == <<pay, bq, bstep, cur, ret>>

\* ------------------------------------------------ _broadcast
\* "with self._lock: subscribers = list(self._subscribers)": thread t starts
\* broadcasting payload and goes on at retpc when every queue was served
BcastCopy(t, payload, retpc) ==
    /\ pay' = [pay EXCEPT ![t] = IF subscribers = {} THEN NoPay ELSE payload]
    /\ bq' = [bq EXCEPT ![t] = subscribers]
    /\ ret' = [ret EXCEPT ![t] = IF subscribers = {} THEN "none" ELSE retpc]
    /\ UNCHANGED <<bstep, cur>>

BcastPc(retpc) == IF subscribers = {} THEN retpc ELSE "bcast"

\* thread t is done with queue q: the next queue, or the return of _broadcast
\* (connect() broadcasts inside its "with self._lock" and releases it on return)
BcastAdvance(t, q) ==
    /\ bq' = [bq EXCEPT ![t] = @ \ {q}]
    /\ bstep' = [bstep EXCEPT ![t] = "put"]
    /\ cur' = [cur EXCEPT ![t] = 0]
    /\ IF bq[t] = {q}
       THEN /\ pc' = [pc EXCEPT ![t] = ret[t]]
            /\ pay' = [pay EXCEPT ![t] = NoPay]
            /\ ret' = [ret EXCEPT ![t] = "none"]
            /\ lock' = IF lock = t THEN 0 ELSE lock
       ELSE UNCHANGED <<pc, pay, ret, lock>>

\* first q.put_nowait(payload) of the loop body
BcastPut(t) ==
    /\ pc[t] = "bcast" /\ bstep[t] = "put"
    /\ \E q \in bq[t] :
        IF ~Full(q)
        THEN /\ queue' = PutNowait(q, pay[t])
             /\ BcastAdvance(t, q)
        ELSE /\ bstep' = [bstep EXCEPT ![t] = "get"]
             /\ cur' = [cur EXCEPT ![t] = q]
             /\ UNCHANGED <<queue, bq, pc, pay, ret, lock>>
    /\ UNCHANGED <<flagV, sessV, bufV, subV, stop_event, last_emitted_window_ts,
                   clock, snap, outcome>>

\* except queue.Full: q.get_nowait(), any exception passed over
BcastGet(t) ==
    /\ pc[t] = "bcast" /\ bstep[t] = "get"
    /\ queue' = GetNowait(cur[t])
    /\ bstep' = [bstep EXCEPT ![t] = "put2"]
    /\ UNCHANGED <<flagV, sessV, bufV, subV, stop_event, last_emitted_window_ts,
                   clock, snap, outcome, lock, pc, pay, bq, cur, ret>>

\* second q.put_nowait(payload), any exception passed over
BcastPut2(t) ==
    /\ pc[t] = "bcast" /\ bstep[t] = "put2"
    /\ queue' = IF ~Full(cur[t]) THEN PutNowait(cur[t], pay[t]) ELSE queue
    /\ BcastAdvance(t, cur[t])
    /\ UNCHANGED <<flagV, sessV, bufV, subV, stop_event, last_emitted_window_ts,
                   clock, snap, outcome>>

\* ------------------------------------------------ public API
\* the worker a successful connect() starts: the next thread not yet used
NextWorker == CHOOSE w \in Workers : pc[w] = "unborn" /\ \A v \in Workers : pc[v] = "unborn" => w <= v

\* mutant of ConnectRejects: connect() without the is_alive() check
ConnectNeverRejects == FALSE

\* the guard of connect(): "if self._worker_thread and self._worker_thread.is_alive()"
ConnectRejects == Alive(worker_thread)

\* mutant of connect_raise: the is_alive() check made after
\* self._stop_event.clear()
connect_raise_late(c) ==
    /\ outcome' = [outcome EXCEPT ![c] = "RuntimeError"]
    /\ stop_event' = FALSE
    /\ UNCHANGED <<flagV, sessV, bufV, subV, bcastV,
                   last_emitted_window_ts, clock, snap, lock, pc, queue>>

\* "raise RuntimeError('fNIRS live session is already running')", the first
\* statement inside the lock
connect_raise(c) ==
    /\ outcome' = [outcome EXCEPT ![c] = "RuntimeError"]
    /\ UNCHANGED <<flagV, sessV, bufV, subV, bcastV, stop_event,
                   last_emitted_window_ts, clock, snap, lock, pc, queue>>

\* mutant of connect_reset: connect() without "self._rows = []"
connect_reset_keeps_rows(mock) ==
    /\ stop_event' = FALSE
    /\ connected' = FALSE /\ streaming' = FALSE
    /\ mock_mode' = mock
    /\ last_error' = FALSE
    /\ session_id' = NextWorker
    /\ sample_count' = 0 /\ rows' = rows /\ latest_sensor_ts' = 0
    /\ last_emitted_window_ts' = NegInf

\* the assignments of connect() from self._stop_event.clear() to
\* self._last_emitted_window_ts = float('-inf'); uuid4 gives an id not yet used
connect_reset(mock) ==
    /\ stop_event' = FALSE
    /\ connected' = FALSE /\ streaming' = FALSE
    /\ mock_mode' = mock
    /\ last_error' = FALSE
    /\ session_id' = NextWorker
    /\ sample_count' = 0 /\ rows' = <<>> /\ latest_sensor_ts' = 0
    /\ last_emitted_window_ts' = NegInf

connect(c, mock) ==
    /\ pc[c] = "idle" /\ lock = 0
    /\ IF ConnectRejects
       THEN connect_raise(c)
       ELSE /\ \E w \in Workers : pc[w] = "unborn"
            /\ connect_reset(mock)
            /\ mesh_loaded' = TRUE
            /\ worker_thread' = NextWorker
            /\ outcome' = [outcome EXCEPT ![c] = "started"]
            /\ BcastCopy(c, [StatusEvent("") EXCEPT !.sid = NextWorker], "idle")
            /\ pc' = [pc EXCEPT ![NextWorker] = IF mock THEN "mock_enter" ELSE "mendi_enter",
                                ![c] = BcastPc("idle")]
            /\ lock' = IF subscribers = {} THEN 0 ELSE c
            /\ UNCHANGED <<subV, last_status_emit, clock, snap, queue>>

\* disconnect(): self._stop_event.set()
disconnect(c) ==
    /\ pc[c] = "idle"
    /\ stop_event' = TRUE
    /\ pc' = [pc EXCEPT ![c] = "disconnect_bcast"]
    /\ UNCHANGED <<flagV, sessV, bufV, subV, bcastV, last_emitted_window_ts,
                   clock, snap, lock, queue, outcome>>

\* disconnect(): self._broadcast({... 'disconnect_requested', **self.status()})
disconnect_broadcast(c) ==
    /\ pc[c] = "disconnect_bcast" /\ lock = 0
    /\ BcastCopy(c, StatusEvent("disconnect_requested"), "idle")
    /\ pc' = [pc EXCEPT ![c] = BcastPc("idle")]
    /\ UNCHANGED <<flagV, sessV, bufV, subV, stop_event, last_emitted_window_ts,
                   clock, snap, lock, queue, outcome>>

\* mutant of subscribe_events: subscribe() without its mesh_init event
subscribe_events_status_only(loaded) == <<StatusEvent("")>>

\* what subscribe() puts on the new queue inside its "with self._lock":
\* the status event, then mesh_init "if self._mesh_json is not None and
\* self._mapping_json is not None"
subscribe_events(loaded) ==
    IF loaded THEN <<StatusEvent(""), MeshInitEvent>> ELSE <<StatusEvent("")>>

\* subscribe(): _ensure_mesh_mapping() (it returns with both fields set, or
\* raises and subscribe() registers nothing), then a new queue, registered and
\* primed in one critical section; the queue is local until it is added to
\* _subscribers, and _broadcast copies _subscribers under the same lock
subscribe ==
    /\ lock = 0 /\ nqueues < MaxSubs
    /\ nqueues' = nqueues + 1
    /\ mesh_loaded' = TRUE
    /\ subscribers' = subscribers \cup {nqueues + 1}
    /\ queue' = [queue EXCEPT ![nqueues + 1] = subscribe_events(mesh_loaded')]
    /\ UNCHANGED <<flagV, worker_thread, mock_mode, session_id, bufV, bcastV, stop_event,
                   last_emitted_window_ts, clock, snap, lock, pc, outcome>>

unsubscribe(q) ==
    /\ lock = 0 /\ q \in subscribers
    /\ subscribers' = subscribers \ {q}
    /\ UNCHANGED <<flagV, sessV, bufV, bcastV, stop_event, last_emitted_window_ts,
                   clock, snap, lock, pc, outcome, queue, nqueues>>

\* the stream handler of web/server.py takes the next event of its queue
stream_get(q) ==
    /\ q \in subscribers /\ queue[q] # <<>>
    /\ queue' = [queue EXCEPT ![q] = Tail(@)]
    /\ UNCHANGED <<flagV, sessV, bufV, subV, bcastV, stop_event, last_emitted_window_ts,
                   clock, snap, lock, pc, outcome>>

\* ------------------------------------------------ worker
\* time between two readings of time.time(), in ticks
Gaps == {1, 4}

\* mutant of AfterAppend: the mock loop without its call of
\* _emit_delayed_heatmap_if_ready
AfterAppendSkipsTick == IF mock_mode THEN "mock_loop" ELSE "mendi_loop"

\* where the worker goes on after an append or a tick
AfterAppend == IF mock_mode THEN "tick_snap" ELSE "mendi_loop"
AfterTick(t) == IF t = Ticker THEN "idle" ELSE IF mock_mode THEN "mock_loop" ELSE "mendi_loop"

\* mutant of LoopContinues: a loop that never looks at the stop flag
LoopIgnoresStop == TRUE

\* "while not self._stop_event.is_set()": whether the worker loop goes on
LoopContinues == ~stop_event

\* mutant of ShouldEmitStatus: no throttle
ShouldEmitAlways(now) == TRUE

\* should_emit_status = (now - self._last_status_emit) >= 1.0
ShouldEmitStatus(now) == (now - last_status_emit) >= StatusPeriod

\* mutant of Copied: "rows = self._rows" without list(), the rows of a tick
\* are the buffer itself
Aliased(sn, buffer) == IF sn.rows = <<>> THEN sn ELSE [sn EXCEPT !.rows = buffer]

\* what "self._rows.append(row)" and "self._rows.pop(0)" make of the rows a
\* tick took with "rows = list(self._rows)": a list of its own, left as it is
Copied(sn, buffer) == sn

\* _append_sample(row) with row['timestamp'] = ts, called by thread t at time now
append_sample(t, ts, now) ==
    LET should_emit_status == ShouldEmitStatus(now)
    IN  /\ lock = 0
        /\ rows' = Prune(Append(rows, ts), ts - RetentionTicks)
        /\ snap' = [u \in Threads |-> Copied(snap[u], rows')]
        /\ sample_count' = sample_count + 1
        /\ latest_sensor_ts' = ts
        /\ last_status_emit' = IF should_emit_status THEN now ELSE last_status_emit
        /\ IF should_emit_status
           THEN /\ BcastCopy(t, SampleStatsEvent, "append_status")
                /\ pc' = [pc EXCEPT ![t] = BcastPc("append_status")]
           ELSE /\ pc' = [pc EXCEPT ![t] = AfterAppend]
                /\ UNCHANGED bcastV

\* _run_mock_worker: connected and streaming, first status broadcast
mock_enter(w) ==
    /\ pc[w] = "mock_enter" /\ lock = 0
    /\ connected' = TRUE /\ streaming' = TRUE
    /\ BcastCopy(w, StatusEvent(""), "mock_loop")
    /\ pc' = [pc EXCEPT ![w] = BcastPc("mock_loop")]
    /\ UNCHANGED <<last_error, sessV, bufV, subV, stop_event, last_emitted_window_ts,
                   clock, snap, lock, queue, outcome>>

\* _run_mock_worker: one turn of the loop, up to the end of _append_sample's
\* locked block; the time since the turn before is one of gaps
mock_loop_gaps(w, cap, gaps) ==
    /\ pc[w] = "mock_loop"
    /\ IF LoopContinues
       THEN /\ sample_count < cap
            /\ \E dt \in gaps :
                /\ clock' = clock + dt
                /\ append_sample(w, clock + dt, clock + dt)
            /\ UNCHANGED <<flagV, sessV, subV, stop_event, last_emitted_window_ts,
                           lock, queue, outcome>>
       ELSE /\ pc' = [pc EXCEPT ![w] = "finally"]
            /\ UNCHANGED <<flagV, sessV, bufV, subV, bcastV, stop_event,
                           last_emitted_window_ts, clock, snap, lock, queue, outcome>>

mock_loop(w, cap) == mock_loop_gaps(w, cap, Gaps)

\* _append_sample: the second broadcast, of the status event
append_status(t) ==
    /\ pc[t] = "append_status" /\ lock = 0
    /\ BcastCopy(t, StatusEvent(""), AfterAppend)
    /\ pc' = [pc EXCEPT ![t] = BcastPc(AfterAppend)]
    /\ UNCHANGED <<flagV, sessV, bufV, subV, stop_event, last_emitted_window_ts,
                   clock, snap, lock, queue, outcome>>

\* _emit_delayed_heatmap_if_ready: the snapshot taken under the lock
tick_snapshot_of(t) ==
    /\ lock = 0
    /\ snap' = [snap EXCEPT ![t] = [rows |-> rows, latest |-> latest_sensor_ts,
                                    last |-> last_emitted_window_ts, sid |-> session_id]]
    /\ pc' = [pc EXCEPT ![t] = "tick_cas"]
    /\ UNCHANGED <<flagV, sessV, bufV, subV, bcastV, stop_event, last_emitted_window_ts,
                   clock, lock, queue, outcome>>

tick_snapshot(t) == pc[t] = "tick_snap" /\ tick_snapshot_of(t)

\* mutant of MarkerAllows: the marker is written without the comparison
MarkerAllowsAny(cand) == TRUE

\* the second locked block: may the candidate be emitted?
MarkerAllows(cand) == cand > last_emitted_window_ts

\* _emit_delayed_heatmap_if_ready: windowing on the snapshot, the check of the
\* marker and its update under the lock, and the start of the broadcast
tick_emit(t) ==
    /\ pc[t] = "tick_cas"
    /\ snap' = [snap EXCEPT ![t] = NoSnap]
    /\ \E cand \in {Candidate(snap[t])} :
           IF cand = 0
           THEN /\ pc' = [pc EXCEPT ![t] = AfterTick(t)]
                /\ UNCHANGED <<last_emitted_window_ts, bcastV>>
           ELSE /\ lock = 0
                /\ IF MarkerAllows(cand)
                   THEN /\ last_emitted_window_ts' = cand
                        /\ BcastCopy(t, HeatmapEvent(snap[t], cand), AfterTick(t))
                        /\ pc' = [pc EXCEPT ![t] = BcastPc(AfterTick(t))]
                   ELSE /\ pc' = [pc EXCEPT ![t] = AfterTick(t)]
                        /\ UNCHANGED <<last_emitted_window_ts, bcastV>>
    /\ UNCHANGED <<flagV, sessV, bufV, subV, stop_event, clock, lock, queue, outcome>>

\* _run_mendi_worker: "async with MendiClient()", then connected
mendi_enter(w) ==
    /\ pc[w] = "mendi_enter"
    /\ \E ok \in BOOLEAN :
        IF ok
        THEN /\ lock = 0
             /\ connected' = TRUE
             /\ BcastCopy(w, StatusEvent(""), "mendi_start")
             /\ pc' = [pc EXCEPT ![w] = BcastPc("mendi_start")]
        ELSE /\ pc' = [pc EXCEPT ![w] = "except"]
             /\ UNCHANGED <<connected, bcastV>>
    /\ UNCHANGED <<streaming, last_error, sessV, bufV, subV, stop_event,
                   last_emitted_window_ts, clock, snap, lock, queue, outcome>>

\* _run_mendi_worker: "await mendi.start_streaming()", then streaming
mendi_start(w) ==
    /\ pc[w] = "mendi_start"
    /\ \E ok \in BOOLEAN :
        IF ok
        THEN /\ lock = 0
             /\ streaming' = TRUE
             /\ BcastCopy(w, StatusEvent(""), "mendi_loop")
             /\ pc' = [pc EXCEPT ![w] = BcastPc("mendi_loop")]
        ELSE /\ pc' = [pc EXCEPT ![w] = "except"]
             /\ UNCHANGED <<streaming, bcastV>>
    /\ UNCHANGED <<connected, last_error, sessV, bufV, subV, stop_event,
                   last_emitted_window_ts, clock, snap, lock, queue, outcome>>

\* _run_mendi_worker: the loop test, then a tick or the way out
mendi_loop(w) ==
    /\ pc[w] = "mendi_loop"
    /\ \E is_connected \in BOOLEAN :
        pc' = [pc EXCEPT ![w] = IF LoopContinues /\ is_connected
                                THEN "tick_snap" ELSE "mendi_stop"]
    /\ UNCHANGED <<flagV, sessV, bufV, subV, bcastV, stop_event, last_emitted_window_ts,
                   clock, snap, lock, queue, outcome>>

\* _on_frame: the device callback, run while the worker awaits asyncio.sleep
on_frame(w, cap) ==
    /\ pc[w] = "mendi_loop"
    /\ sample_count < cap
    /\ \E dt \in Gaps :
        /\ clock' = clock + dt
        /\ append_sample(w, clock + dt, clock + dt)
    /\ UNCHANGED <<flagV, sessV, subV, stop_event, last_emitted_window_ts,
                   lock, queue, outcome>>

\* _run_mendi_worker: the inner finally (stop_streaming, exceptions passed
\* over) and the exit of "async with", which may raise
mendi_stop(w) ==
    /\ pc[w] = "mendi_stop"
    /\ \E ok \in BOOLEAN :
        pc' = [pc EXCEPT ![w] = IF ok THEN "finally" ELSE "except"]
    /\ UNCHANGED <<flagV, sessV, bufV, subV, bcastV, stop_event, last_emitted_window_ts,
                   clock, snap, lock, queue, outcome>>

\* mutant of worker_except: the exception is passed over in silence
worker_except_silent(w) ==
    /\ pc[w] = "except" /\ lock = 0
    /\ pc' = [pc EXCEPT ![w] = "finally"]
    /\ UNCHANGED <<flagV, sessV, bufV, subV, bcastV, stop_event, last_emitted_window_ts,
                   clock, snap, lock, queue, outcome>>

\* _worker_main: "except Exception as exc"
worker_except(w) ==
    /\ pc[w] = "except" /\ lock = 0
    /\ last_error' = TRUE
    /\ connected' = FALSE /\ streaming' = FALSE
    /\ BcastCopy(w, ErrorEvent, "finally")
    /\ pc' = [pc EXCEPT ![w] = BcastPc("finally")]
    /\ UNCHANGED <<sessV, bufV, subV, stop_event, last_emitted_window_ts,
                   clock, snap, lock, queue, outcome>>

\* mutant of worker_finally: the flags are not reset on the way out
worker_finally_keeps_flags(w) ==
    /\ pc[w] = "finally" /\ lock = 0
    /\ BcastCopy(w, StatusEvent(""), "done")
    /\ pc' = [pc EXCEPT ![w] = BcastPc("done")]
    /\ UNCHANGED <<flagV, sessV, bufV, subV, stop_event, last_emitted_window_ts,
                   clock, snap, lock, queue, outcome>>

\* _worker_main: "finally", the last status broadcast, the end of the thread
worker_finally(w) ==
    /\ pc[w] = "finally" /\ lock = 0
    /\ connected' = FALSE /\ streaming' = FALSE
    /\ BcastCopy(w, StatusEvent(""), "done")
    /\ pc' = [pc EXCEPT ![w] = BcastPc("done")]
    /\ UNCHANGED <<last_error, sessV, bufV, subV, stop_event, last_emitted_window_ts,
                   clock, snap, lock, queue, outcome>>

\* an emission tick run by another thread than the worker while the session
\* streams (ticks that return at "len(rows) < 8" change nothing and are left out)
ticker_tick ==
    /\ pc[Ticker] = "idle"
    /\ Alive(worker_thread) /\ streaming
    /\ Len(rows) >= MinRows
    /\ tick_snapshot_of(Ticker)

\* ------------------------------------------------ the batch scorer
\* oc_scorer.py.  The CSV is given by its number of rows and the gap between
\* two timestamps (ticks); the signal enters by the two indices of each window,
\* whole numbers drawn when the window is computed.  Scores are counted in
\* units of 1e-4, the precision the scorer rounds them to.
MaxRows == 8              \* rows of the CSV
MaxGap == 4               \* ticks between two rows of the CSV
MaxWindows == 6           \* windows computed by a loop before it is left alone
BASELINE_SEC == 3         \* baseline windows of the EEG scorer (120 in the code)
FNIRS_BASELINE_SEC == 2   \* baseline windows of the fNIRS scorer (30 in the code)
MIN_BASELINE_SEC == 2     \* fewest baseline windows (10 in the code)
MaxCalls == 2             \* calls of compute_oc_scores on one CSV

DEFAULT_SAMPLE_RATE == 250
DEFAULT_FNIRS_SAMPLE_RATE == 11
WINDOW_SEC == 4
STRIDE_SEC == 1
NoTrim == -1              \* trim_before=None
ScoreOne == 10000         \* the score 1.0

Modes == {"eeg", "fnirs"}
Calls == [mode : Modes, rows : 0..MaxRows, gap : 0..MaxGap, trim : {NoTrim, 2}]

\* rows of the CSV that no window has read yet
Unread == <<>>

\* fatigue_idx, engagement_idx of one window: power ratios (EEG, never
\* negative) or mean concentration changes (fNIRS, of either sign)
IndexValues(mode) == IF mode = "eeg" THEN {0, 2} ELSE {-1, 1}

\* the timestamp column of the CSV
CsvTimestamps(in) == [i \in 1..in.rows |-> (i - 1) * in.gap]

\* "if trim_before is not None and ts < trim_before: continue"
Kept(in) ==
    SelectSeq(CsvTimestamps(in), LAMBDA t : in.trim = NoTrim \/ t >= in.trim)

\* "Auto-detect sample rate from timestamps": round((n - 1) / total_duration),
\* the default rate when there is no duration to divide by
detect_sample_rate(ts, default) ==
    IF Len(ts) > 1 /\ ts[Len(ts)] - ts[1] > 0
    THEN RoundHalfEven((Len(ts) - 1) * TicksPerSec, ts[Len(ts)] - ts[1])
    ELSE default

DefaultRate(mode) ==
    IF mode = "eeg" THEN DEFAULT_SAMPLE_RATE ELSE DEFAULT_FNIRS_SAMPLE_RATE

oc_window_samples(rate) == rate * WINDOW_SEC
oc_stride_samples(rate) == rate * STRIDE_SEC

\* nperseg = min(512, window_samples // 2)
nperseg(rate) == Min(512, oc_window_samples(rate) \div 2)

\* "while start + window_samples <= n_samples"
LoopTest == start + oc_window_samples(sample_rate) <= Len(timestamps)

RECURSIVE SumSeq(_)
SumSeq(v) == IF v = <<>> THEN 0 ELSE Head(v) + SumSeq(Tail(v))

Squares(v) == [i \in 1..Len(v) |-> v[i] * v[i]]

\* integer square root
Isqrt(x) == CHOOSE r \in 0..x : r * r <= x /\ x < (r + 1) * (r + 1)

\* mutant of baseline_count: the nominal count, whatever was recorded
baseline_count_nominal(n_windows, baseline_sec) == baseline_sec

\* baseline_count / baseline_win_count
baseline_count(n_windows, baseline_sec) ==
    LET c == Min(baseline_sec, n_windows)
    IN  IF c < MIN_BASELINE_SEC THEN n_windows ELSE c

BaselineSec(mode) == IF mode = "eeg" THEN BASELINE_SEC ELSE FNIRS_BASELINE_SEC

\* compute_baseline of the live path: "max(1, int(round(series.sample_rate_est_hz
\* or 11)))", est = 0 standing for an estimate of None or 0.0
baseline_rate(est) == Max(1, IF est = 0 THEN NominalRate ELSE est)

\* compute_baseline: the length of the slice sl the means and stds are taken over
baseline_slice(n_samples, est, baseline_sec) ==
    LET n0 == Min(n_samples, baseline_rate(est) * baseline_sec)
        n == IF n0 < 2 THEN n_samples ELSE n0
    IN  Min(n_samples, Max(1, n))

\* (b * std)^2 of the first b entries of v:  b * sum(v^2) - sum(v)^2
Spread(v, b) ==
    b * SumSeq(Squares(SubSeq(v, 1, b))) - SumSeq(SubSeq(v, 1, b)) * SumSeq(SubSeq(v, 1, b))

\* z = (v[i] - mean) / (std + EPSILON), in tenths, where the baseline has a
\* spread: (b v[i] - sum) / (b std), EPSILON = 1e-10 being out of sight
ZTenths(v, b, i) ==
    IF Spread(v, b) = 0 THEN 0
    ELSE (100 * (b * v[i] - SumSeq(SubSeq(v, 1, b)))) \div Isqrt(100 * Spread(v, b))

\* where the baseline has no spread, z = (v[i] - mean) / EPSILON: this number
\* times 1e10 / b, beyond every other term of the fusion
ZBig(v, b, i) ==
    IF Spread(v, b) = 0 THEN b * v[i] - SumSeq(SubSeq(v, 1, b)) ELSE 0

\* 1000 * e^k for k = -10..10
ExpTable ==
    <<0, 0, 0, 1, 2, 7, 18, 50, 135, 368, 1000, 2718, 7389, 20086, 54598,
      148413, 403429, 1096633, 2980958, 8103084, 22026466>>

\* 1000 * np.exp(x), x in hundredths between -10 and 10: the table at the
\* whole numbers, a straight line between them
ExpMilli(x100) ==
    LET k == x100 \div 100
        f == x100 % 100
    IN  ExpTable[k + 11] + ((ExpTable[k + 12] - ExpTable[k + 11]) * f) \div 100

\* 1.0 / (1.0 + np.exp(-a)), a in hundredths; beyond +-10 the value rounds to
\* the end of the scale
Sigmoid(a100) ==
    IF a100 >= 1000 THEN ScoreOne
    ELSE IF a100 <= -1000 THEN 0
    ELSE (ScoreOne * 1000) \div (1000 + ExpMilli(-a100))

\* raw_oc: np.exp overflows to inf or falls to 0.0 where a z-score is beyond
\* every bound, and the quotient is 0.0 or 1.0
raw_oc(big, a100) ==
    IF big > 0 THEN ScoreOne ELSE IF big < 0 THEN 0 ELSE Sigmoid(a100)

\* np.clip(x, 0.0, 1.0)
clip(x) == Max(0, Min(ScoreOne, x))

\* mutant of oc_score: the weighted sum is returned as it is
oc_score_unbounded(big, a100) == a100 * 100

\* oc_scores = np.clip(raw_oc, 0.0, 1.0), rounded to 4 decimals
oc_score(big, a100) == clip(raw_oc(big, a100))

\* window_ts of window i: float(timestamps[min(mid, n_samples - 1)]), with
\* mid = start + window_samples // 2; round(., 2) keeps a half second as it is
window_ts(i) ==
    LET mid == (i - 1) * oc_stride_samples(sample_rate)
               + oc_window_samples(sample_rate) \div 2
    IN  timestamps[Min(mid, Len(timestamps) - 1) + 1]

\* ------------------------------------------------ the OC scores CSV
\* a cell of the file is a string, here the sequence of its characters
DigitChar(d) == <<"0", "1", "2", "3", "4", "5", "6", "7", "8", "9">>[d + 1]

DigitOf(c) == CHOOSE d \in 0..9 : DigitChar(d) = c

RECURSIVE StrInt(_)
\* str() of an int that is not negative
StrInt(n) == IF n < 10 THEN <<DigitChar(n)>> ELSE StrInt(n \div 10) \o <<DigitChar(n % 10)>>

\* str() of an int
StrSigned(n) == IF n < 0 THEN <<"-">> \o StrInt(-n) ELSE StrInt(n)

RECURSIVE StripZeros(_)
\* the fraction digits repr() prints: no trailing zero but the first digit
StripZeros(ds) ==
    IF Len(ds) > 1 /\ ds[Len(ds)] = "0" THEN StripZeros(SubSeq(ds, 1, Len(ds) - 1)) ELSE ds

\* mutant of ReprDigits: the score written with two decimals
ReprTwoDigits(f) == <<DigitChar(f \div 1000), DigitChar((f \div 100) % 10)>>

\* the fraction f / 10000 of a value rounded to 4 decimals, as repr() prints it
ReprDigits(f) ==
    StripZeros(<<DigitChar(f \div 1000), DigitChar((f \div 100) % 10),
                 DigitChar((f \div 10) % 10), DigitChar(f % 10)>>)

\* str() of the float k / 10000, k >= 0: what csv.DictWriter writes for
\* round(float(oc_scores[i]), 4)
StrScore(k) == StrInt(k \div ScoreOne) \o <<".">> \o ReprDigits(k % ScoreOne)

\* str() of a float that is a whole number (the two indices of the model)
StrWhole(v) == StrSigned(v) \o <<".", "0">>

\* str() of the float t / TicksPerSec: round(window_timestamps[i], 2)
StrTicks(t) == StrInt(t \div TicksPerSec) \o <<".">> \o <<DigitChar((t % TicksPerSec) * 5)>>

RECURSIVE IntStr(_)
\* int() of a cell of digits
IntStr(cs) ==
    IF cs = <<>> THEN 0 ELSE 10 * IntStr(SubSeq(cs, 1, Len(cs) - 1)) + DigitOf(cs[Len(cs)])

\* 10 to the power n
Pow10(n) == IF n = 0 THEN 1 ELSE IF n = 1 THEN 10 ELSE IF n = 2 THEN 100
            ELSE IF n = 3 THEN 1000 ELSE 10000

\* float() of a cell "digits.digits" with at most 4 decimals, in units of 1e-4
ScoreStr(cs) ==
    LET dot == CHOOSE i \in 1..Len(cs) : cs[i] = "."
        frac == SubSeq(cs, dot + 1, Len(cs))
    IN  IntStr(SubSeq(cs, 1, dot - 1)) * ScoreOne + IntStr(frac) * Pow10(4 - Len(frac))

\* fieldnames, with "timestamp" inserted at index 1 on request
Fieldnames(with_ts) ==
    IF with_ts THEN <<"sec", "timestamp", "fatigue_idx", "engagement_idx", "oc_score">>
    ELSE <<"sec", "fatigue_idx", "engagement_idx", "oc_score">>

\* the cell csv.DictWriter writes for one field of a record
Cell(row, name) ==
    IF name = "sec" THEN StrInt(row.sec)
    ELSE IF name = "timestamp" THEN StrTicks(row.timestamp)
    ELSE IF name = "fatigue_idx" THEN StrWhole(row.fatigue_idx)
    ELSE IF name = "engagement_idx" THEN StrWhole(row.engagement_idx)
    ELSE StrScore(row.oc_score)

\* no file at output_path
NoFile == [exists |-> FALSE, header |-> <<>>, rows |-> <<>>]

\* open(output_path, "w"), writeheader(), one writerow() per record
WriteCsv(res, with_ts) ==
    LET names == Fieldnames(with_ts)
    IN  [exists |-> TRUE, header |-> names,
         rows |-> [i \in 1..Len(res) |->
                     [j \in 1..Len(names) |-> Cell(res[i], names[j])]]]

\* csv.DictReader on the file: one dict per line below the header
ReadCsv(file) ==
    [i \in 1..Len(file.rows) |->
        [name \in {file.header[j] : j \in 1..Len(file.header)} |->
            file.rows[i][CHOOSE j \in 1..Len(file.header) : file.header[j] = name]]]

\* the record of window i
Record(mode, eng, fat, i) ==
    LET b == baseline_count(Len(eng), BaselineSec(mode))
        big == 6 * ZBig(eng, b, i) - 4 * ZBig(fat, b, i)
        a100 == 6 * ZTenths(eng, b, i) - 4 * ZTenths(fat, b, i) + 80
    IN  [sec |-> (i - 1) * STRIDE_SEC, timestamp |-> window_ts(i),
         fatigue_idx |-> fat[i], engagement_idx |-> eng[i],
         oc_score |-> oc_score(big, a100)]

\* "Build result list"
BuildResults(mode, eng, fat) == [i \in 1..Len(eng) |-> Record(mode, eng, fat, i)]

\* compute_oc_scores picks the scorer by the header; the scorer reads the CSV
score_read ==
    /\ sc_pc = "call"
    /\ timestamps' = Kept(sc_in)
    /\ sc_pc' = "rate"
    /\ UNCHANGED <<sc_in, sample_rate, start, engagement_indices, fatigue_indices, results,
                   callV>>

\* the sample rate, the window and the stride, and the guards that return []
score_rate ==
    /\ sc_pc = "rate"
    /\ IF sc_in.mode = "fnirs" /\ Len(timestamps) < 2
       THEN /\ sc_pc' = "returned"
            /\ UNCHANGED sample_rate
       ELSE LET r == detect_sample_rate(timestamps, DefaultRate(sc_in.mode))
            IN  /\ sample_rate' = r
                /\ sc_pc' = IF Len(timestamps) < oc_window_samples(r)
                            THEN "returned" ELSE "loop"
    /\ start' = 0 /\ results' = <<>>
    /\ UNCHANGED <<sc_in, timestamps, engagement_indices, fatigue_indices, callV>>

\* one turn of the sliding-window loop: the two indices are computed from the
\* rows start .. start + window_samples of the CSV, so the same rows give the
\* same indices whenever they are read
score_window ==
    /\ sc_pc = "loop" /\ LoopTest
    /\ Len(engagement_indices) < MaxWindows
    /\ \E e, f \in IndexValues(sc_in.mode) :
        /\ csv_indices[start] \in {Unread, <<e, f>>}
        /\ csv_indices' = [csv_indices EXCEPT ![start] = <<e, f>>]
        /\ engagement_indices' = Append(engagement_indices, e)
        /\ fatigue_indices' = Append(fatigue_indices, f)
    /\ start' = start + oc_stride_samples(sample_rate)
    /\ UNCHANGED <<sc_in, sc_pc, timestamps, sample_rate, results, first_results, ncalls,
                   csvV>>

\* welch() called with nperseg = 0 on an empty window: it raises where the
\* library checks nperseg first, it returns empty arrays where it checks the
\* input first (and then score_window is the turn taken)
score_raise ==
    /\ sc_pc = "loop" /\ LoopTest
    /\ sc_in.mode = "eeg" /\ nperseg(sample_rate) = 0
    /\ sc_pc' = "raised"
    /\ UNCHANGED <<sc_in, timestamps, sample_rate, start, engagement_indices,
                   fatigue_indices, results, callV>>

\* mutant of InitialResults: the list of the call before is appended to
CarriedResults == first_results

\* "results = []"
InitialResults == <<>>

\* after the loop: baseline, z-scores, fusion, the list that is returned, and
\* "Optionally save to CSV" (the returns of [] above come before it)
score_finish ==
    /\ sc_pc = "loop" /\ ~LoopTest
    /\ results' = InitialResults
                   \o BuildResults(sc_in.mode, engagement_indices, fatigue_indices)
    /\ out_file' = IF output_path
                   THEN WriteCsv(results', include_timestamp_in_csv)
                   ELSE out_file
    /\ sc_pc' = "returned"
    /\ UNCHANGED <<sc_in, timestamps, sample_rate, start, engagement_indices,
                   fatigue_indices, csv_indices, first_results, ncalls,
                   output_path, include_timestamp_in_csv>>

\* compute_oc_scores is called again on the same CSV with the same arguments:
\* the locals of the call start afresh
score_again ==
    /\ sc_pc = "returned" /\ ncalls + 1 < MaxCalls
    /\ first_results' = IF ncalls = 0 THEN results ELSE first_results
    /\ ncalls' = ncalls + 1
    /\ sc_pc' = "call"
    /\ timestamps' = <<>> /\ sample_rate' = 0 /\ start' = 0
    /\ engagement_indices' = <<>> /\ fatigue_indices' = <<>>
    /\ results' = <<>>
    /\ UNCHANGED <<sc_in, csv_indices, csvV>>

\* ------------------------------------------------ specification
InitClock == 4

\* the service as constructed by get_service()
InitLive ==
    /\ lock = 0
    /\ subscribers = {}
    /\ worker_thread = 0
    /\ stop_event = FALSE
    /\ connected = FALSE /\ streaming = FALSE /\ mock_mode = FALSE
    /\ session_id = 0
    /\ last_error = FALSE
    /\ sample_count = 0 /\ last_status_emit = 0
    /\ rows = <<>>
    /\ latest_sensor_ts = 0 /\ last_emitted_window_ts = NegInf
    /\ mesh_loaded = FALSE
    /\ queue = [q \in Queues |-> <<>>]
    /\ nqueues = 0
    /\ clock = InitClock
    /\ pc = [t \in Threads |-> IF t \in Workers THEN "unborn" ELSE "idle"]
    /\ pay = [t \in Threads |-> NoPay]
    /\ bq = [t \in Threads |-> {}]
    /\ bstep = [t \in Threads |-> "put"]
    /\ cur = [t \in Threads |-> 0]
    /\ ret = [t \in Threads |-> "none"]
    /\ snap = [t \in Threads |-> NoSnap]
    /\ outcome = [t \in Threads |-> "none"]

\* no call of compute_oc_scores is under way
NoCall == [mode |-> "none", rows |-> 0, gap |-> 0, trim |-> NoTrim]

InitNoScore ==
    /\ sc_in = NoCall /\ sc_pc = "idle"
    /\ timestamps = <<>> /\ sample_rate = 0 /\ start = 0
    /\ engagement_indices = <<>> /\ fatigue_indices = <<>>
    /\ results = <<>>
    /\ csv_indices = [s \in 0..MaxRows |-> Unread]
    /\ first_results = <<>> /\ ncalls = 0
    /\ output_path = FALSE /\ include_timestamp_in_csv = FALSE
    /\ out_file = NoFile

\* no function is being called
NoFn == [fn |-> "none"]

InitNoFn == fn_in = NoFn /\ fn_pc = "idle" /\ fn_out = NoFn

Init == InitLive /\ InitNoScore /\ InitNoFn /\ stamped = FALSE

Connect == (\E c \in Callers, mock \in BOOLEAN : connect(c, mock)) /\ UNCHANGED restLive
Disconnect == (\E c \in Callers : disconnect(c)) /\ UNCHANGED restLive
DisconnectBroadcast == (\E c \in Callers : disconnect_broadcast(c)) /\ UNCHANGED restLive
Subscribe == (subscribe) /\ UNCHANGED restLive
Unsubscribe == (\E q \in Queues : unsubscribe(q)) /\ UNCHANGED restLive
StreamGet == (\E q \in Queues : stream_get(q)) /\ UNCHANGED restLive
BroadcastPut == (\E t \in Workers \cup Callers : BcastPut(t)) /\ UNCHANGED restLive
BroadcastGet == (\E t \in Workers \cup Callers : BcastGet(t)) /\ UNCHANGED restLive
BroadcastPut2 == (\E t \in Workers \cup Callers : BcastPut2(t)) /\ UNCHANGED restLive
MockEnter == (\E w \in Workers : mock_enter(w)) /\ UNCHANGED restLive
MockLoop == (\E w \in Workers : mock_loop(w, MaxSamples)) /\ UNCHANGED restLive
AppendStatus == (\E w \in Workers : append_status(w)) /\ UNCHANGED restLive
TickSnapshot == (\E w \in Workers : tick_snapshot(w)) /\ UNCHANGED restLive
TickEmit == (\E w \in Workers : tick_emit(w)) /\ UNCHANGED restLive
MendiEnter == (\E w \in Workers : mendi_enter(w)) /\ UNCHANGED restLive
MendiStart == (\E w \in Workers : mendi_start(w)) /\ UNCHANGED restLive
MendiLoop == (\E w \in Workers : mendi_loop(w)) /\ UNCHANGED restLive
OnFrame == (\E w \in Workers : on_frame(w, MaxSamples)) /\ UNCHANGED restLive
MendiStop == (\E w \in Workers : mendi_stop(w)) /\ UNCHANGED restLive
WorkerExcept == (\E w \in Workers : worker_except(w)) /\ UNCHANGED restLive
WorkerFinally == (\E w \in Workers : worker_finally(w)) /\ UNCHANGED restLive

WorkerNext ==
    \/ MockEnter \/ MockLoop \/ AppendStatus \/ TickSnapshot \/ TickEmit
    \/ MendiEnter \/ MendiStart \/ MendiLoop \/ OnFrame \/ MendiStop
    \/ WorkerExcept \/ WorkerFinally

Next ==
    \/ Connect \/ Disconnect \/ DisconnectBroadcast
    \/ Subscribe \/ Unsubscribe \/ StreamGet
    \/ BroadcastPut \/ BroadcastGet \/ BroadcastPut2
    \/ WorkerNext

Spec == Init /\ [][Next]_vars

\* ------------------------------------------------ scheduling
\* every step of worker w but the device callback
WorkerStep(w) ==
    /\ \/ mock_enter(w) \/ mock_loop(w, MaxSamples) \/ append_status(w)
       \/ tick_snapshot(w) \/ tick_emit(w)
       \/ mendi_enter(w) \/ mendi_start(w) \/ mendi_loop(w) \/ mendi_stop(w)
       \/ worker_except(w) \/ worker_finally(w)
       \/ BcastPut(w) \/ BcastGet(w) \/ BcastPut2(w)
    /\ UNCHANGED restLive

\* the steps that end a call a request thread has begun
CallerStep(c) ==
    /\ disconnect_broadcast(c) \/ BcastPut(c) \/ BcastGet(c) \/ BcastPut2(c)
    /\ UNCHANGED restLive

\* Threads are scheduled: a worker that can go on does, a request that was
\* begun returns (and so releases the lock), device calls return or raise.
FairSpec ==
    /\ Spec
    /\ \A w \in Workers : WF_vars(WorkerStep(w))
    /\ \A c \in Callers : WF_vars(CallerStep(c))

\* ------------------------------------------------ status events with their times
\* the service watched by an observer that reads the clock whenever a status
\* event is built
InitStamped == InitLive /\ InitNoScore /\ InitNoFn /\ stamped = TRUE

SpecStamped == InitStamped /\ [][Next]_vars

\* ------------------------------------------------ emission ticks, two tickers
\* The session's data path with a second thread that runs emission ticks
\* beside the worker's: one mock session, its appends and ticks, subscribers.
ConnectMock == (\E c \in Callers : connect(c, TRUE)) /\ UNCHANGED restLive
MockLoopTicks == (\E w \in Workers : mock_loop(w, TickSamples)) /\ UNCHANGED restLive
TickerTick == (ticker_tick) /\ UNCHANGED restLive
TickerEmit == (tick_emit(Ticker)) /\ UNCHANGED restLive
TickerPut == (BcastPut(Ticker)) /\ UNCHANGED restLive
TickerGet == (BcastGet(Ticker)) /\ UNCHANGED restLive
TickerPut2 == (BcastPut2(Ticker)) /\ UNCHANGED restLive

NextTicks ==
    \/ ConnectMock \/ Subscribe
    \/ BroadcastPut \/ BroadcastGet \/ BroadcastPut2
    \/ MockEnter \/ MockLoopTicks \/ AppendStatus \/ TickSnapshot \/ TickEmit
    \/ TickerTick \/ TickerEmit \/ TickerPut \/ TickerGet \/ TickerPut2

SpecTicks == Init /\ [][NextTicks]_vars

\* ------------------------------------------------ ticks beside a stalled worker
\* A second thread in the emission tick while the worker appends and, after a
\* stall longer than the retention horizon, prunes.
MockLoopStalls ==
    (\E w \in Workers : mock_loop_gaps(w, TickSamples, {1, 4, RetentionTicks + 1}))
    /\ UNCHANGED restLive

NextSnapshot ==
    \/ ConnectMock \/ MockEnter \/ MockLoopStalls \/ AppendStatus
    \/ TickSnapshot \/ TickEmit \/ TickerTick \/ TickerEmit

SpecSnapshot == Init /\ [][NextSnapshot]_vars

\* ------------------------------------------------ a steady stream
\* A mock session that is never asked to stop and whose samples come at one
\* period, with subscribers that come and read as they like.
SteadySamples == 20
SteadyGaps == {4, 40, 100}

\* the period of the session: picked with the first sample, kept afterwards
SteadyGap ==
    IF rows = <<>> THEN SteadyGaps
    ELSE IF Len(rows) = 1 THEN {rows[1] - InitClock}
    ELSE {rows[Len(rows)] - rows[Len(rows) - 1]}

mock_loop_steady(w) == mock_loop_gaps(w, SteadySamples, SteadyGap)

MockLoopSteady == (\E w \in Workers : mock_loop_steady(w)) /\ UNCHANGED restLive

NextSteady ==
    \/ ConnectMock \/ Subscribe \/ StreamGet
    \/ BroadcastPut \/ BroadcastGet \/ BroadcastPut2
    \/ MockEnter \/ MockLoopSteady \/ AppendStatus \/ TickSnapshot \/ TickEmit

\* every step of the mock worker w
SteadyWorkerStep(w) ==
    /\ \/ mock_enter(w) \/ mock_loop_steady(w) \/ append_status(w)
       \/ tick_snapshot(w) \/ tick_emit(w)
       \/ BcastPut(w) \/ BcastGet(w) \/ BcastPut2(w)
    /\ UNCHANGED restLive

\* The worker thread is scheduled and time.sleep returns; connect() ends its
\* broadcast and releases the lock.
SpecSteady ==
    /\ Init /\ [][NextSteady]_vars
    /\ \A w \in Workers : WF_vars(SteadyWorkerStep(w))
    /\ \A c \in Callers : WF_vars(CallerStep(c))

\* ------------------------------------------------ the rolling buffer
\* A mock session whose worker is at times held up for longer than the
\* retention horizon (the process is suspended, the host sleeps).
BufferSamples == 5
LongGaps == Gaps \cup {RetentionTicks + 1}

MockLoopBuffer ==
    (\E w \in Workers : mock_loop_gaps(w, BufferSamples, LongGaps)) /\ UNCHANGED restLive

NextBuffer ==
    \/ ConnectMock \/ MockEnter \/ MockLoopBuffer \/ AppendStatus
    \/ TickSnapshot \/ TickEmit

SpecBuffer == Init /\ [][NextBuffer]_vars

\* ------------------------------------------------ one call of the scorer
InitScore ==
    /\ InitLive
    /\ sc_in \in Calls /\ sc_pc = "call"
    /\ timestamps = <<>> /\ sample_rate = 0 /\ start = 0
    /\ engagement_indices = <<>> /\ fatigue_indices = <<>>
    /\ results = <<>>
    /\ csv_indices = [s \in 0..MaxRows |-> Unread]
    /\ first_results = <<>> /\ ncalls = 0
    /\ output_path = FALSE /\ include_timestamp_in_csv = FALSE
    /\ out_file = NoFile
    /\ InitNoFn
    /\ stamped = FALSE

\* calls with and without output_path and include_timestamp_in_csv
InitCsv ==
    /\ InitLive
    /\ sc_in \in Calls /\ sc_pc = "call"
    /\ timestamps = <<>> /\ sample_rate = 0 /\ start = 0
    /\ engagement_indices = <<>> /\ fatigue_indices = <<>>
    /\ results = <<>>
    /\ csv_indices = [s \in 0..MaxRows |-> Unread]
    /\ first_results = <<>> /\ ncalls = 0
    /\ output_path \in BOOLEAN /\ include_timestamp_in_csv \in BOOLEAN
    /\ out_file = NoFile
    /\ InitNoFn
    /\ stamped = FALSE

ScoreRead == score_read /\ UNCHANGED restScore
ScoreRate == score_rate /\ UNCHANGED restScore
ScoreWindow == score_window /\ UNCHANGED restScore
ScoreRaise == score_raise /\ UNCHANGED restScore
ScoreFinish == score_finish /\ UNCHANGED restScore
ScoreAgain == score_again /\ UNCHANGED restScore

NextScore ==
    \/ ScoreRead \/ ScoreRate \/ ScoreWindow \/ ScoreRaise \/ ScoreFinish
    \/ ScoreAgain

SpecScore == InitScore /\ [][NextScore]_vars

SpecCsv == InitCsv /\ [][NextScore]_vars

\* ------------------------------------------------ the baseline span
MaxSeries == 70
DEFAULT_BASELINE_SEC == 30

\* a series of n samples with its rate estimate handed to compute_baseline, or
\* n index windows at the baseline step of a batch scorer
BaselineCalls ==
    [fn : {"compute_baseline"}, n : 1..MaxSeries, rate : 0..2]
    \cup [fn : Modes, n : 1..MaxSeries, rate : {0}]

InitBaseline ==
    /\ InitLive /\ InitNoScore /\ stamped = FALSE
    /\ fn_in \in BaselineCalls /\ fn_pc = "call" /\ fn_out = NoFn

baseline_call ==
    /\ fn_pc = "call" /\ fn_in.fn \in Modes \cup {"compute_baseline"}
    /\ fn_out' = [fn |-> fn_in.fn,
                  n |-> IF fn_in.fn = "compute_baseline"
                        THEN baseline_slice(fn_in.n, fn_in.rate, DEFAULT_BASELINE_SEC)
                        ELSE baseline_count(fn_in.n, BaselineSec(fn_in.fn))]
    /\ fn_pc' = "returned"
    /\ UNCHANGED fn_in

BaselineCall == baseline_call /\ UNCHANGED restFn

SpecBaseline == InitBaseline /\ [][BaselineCall]_vars

\* ------------------------------------------------ _coerce_rows
MaxCsvRows == 2
TrimAt == 2

\* the columns a row is asked for with row[...], and with row.get(..., 0.0)
IndexedFields == {"timestamp", "ir_l", "red_l", "amb_l", "ir_r", "red_r", "amb_r"}
GetFields == {"ir_p", "red_p", "amb_p", "temp"}
Fields == IndexedFields \cup GetFields

\* a row of csv.DictReader: a cell per column present; ok says float(cell)
\* succeeds, v is its value then
GoodRow(ts) ==
    [f \in Fields |-> [ok |-> TRUE, v |-> IF f = "timestamp" THEN ts ELSE 5]]

\* rows with at most one cell absent or not a number
CsvRows ==
    UNION {{GoodRow(ts)}
           \cup {[f \in Fields \ {g} |-> GoodRow(ts)[f]] : g \in Fields}
           \cup {[GoodRow(ts) EXCEPT ![g].ok = FALSE] : g \in Fields}
           : ts \in {TrimAt - 1, TrimAt + 1}}

\* float(row[f]) raises KeyError or ValueError
IndexRaises(row, f) == f \notin DOMAIN row \/ ~row[f].ok

\* float(row.get(f, 0.0)) raises ValueError
GetRaises(row, f) == f \in DOMAIN row /\ ~row[f].ok

\* row.get(f, 0.0) as a float
GetValue(row, f) == IF f \in DOMAIN row THEN row[f].v ELSE 0

\* the body of the loop for one row: the exception, the "continue" of the
\* trim_before filter, or the coerced row
coerce_row(row, trim_before) ==
    IF IndexRaises(row, "timestamp") THEN [kind |-> "raise"]
    ELSE IF trim_before # NoTrim /\ row["timestamp"].v < trim_before THEN [kind |-> "continue"]
    ELSE IF \/ \E f \in IndexedFields : IndexRaises(row, f)
            \/ \E f \in GetFields : GetRaises(row, f)
    THEN [kind |-> "raise"]
    ELSE [kind |-> "append",
          row |-> [timestamp |-> row["timestamp"].v,
                   red_l_corr |-> row["red_l"].v - row["amb_l"].v,
                   ir_l_corr |-> row["ir_l"].v - row["amb_l"].v,
                   amb_l |-> row["amb_l"].v,
                   red_r_corr |-> row["red_r"].v - row["amb_r"].v,
                   ir_r_corr |-> row["ir_r"].v - row["amb_r"].v,
                   amb_r |-> row["amb_r"].v,
                   red_p_corr |-> GetValue(row, "red_p") - GetValue(row, "amb_p"),
                   ir_p_corr |-> GetValue(row, "ir_p") - GetValue(row, "amb_p"),
                   amb_p |-> GetValue(row, "amb_p"),
                   temp |-> GetValue(row, "temp")]]

RECURSIVE coerce_from(_, _, _, _)
\* the loop from row i on, coerced being the list so far, and what follows it
coerce_from(csv_rows, i, trim_before, coerced) ==
    IF i > Len(csv_rows)
    THEN IF coerced = <<>>
         THEN [fn |-> "_coerce_rows", raised |-> "No valid fNIRS samples found in CSV",
               coerced |-> <<>>]
         ELSE [fn |-> "_coerce_rows", raised |-> "", coerced |-> coerced]
    ELSE LET r == coerce_row(csv_rows[i], trim_before)
         IN  IF r.kind = "raise"
             THEN [fn |-> "_coerce_rows", raised |-> "Invalid fNIRS CSV row",
                   coerced |-> <<>>]
             ELSE coerce_from(csv_rows, i + 1, trim_before,
                              IF r.kind = "append" THEN Append(coerced, r.row) ELSE coerced)

_coerce_rows(csv_rows, trim_before) == coerce_from(csv_rows, 1, trim_before, <<>>)

CoerceCalls ==
    [fn : {"_coerce_rows"},
     rows : UNION {[1..n -> CsvRows] : n \in 0..MaxCsvRows},
     trim : {NoTrim, TrimAt}]

InitCoerce ==
    /\ InitLive /\ InitNoScore /\ stamped = FALSE
    /\ fn_in \in CoerceCalls /\ fn_pc = "call" /\ fn_out = NoFn

coerce_call ==
    /\ fn_pc = "call" /\ fn_in.fn = "_coerce_rows"
    /\ fn_out' = _coerce_rows(fn_in.rows, fn_in.trim)
    /\ fn_pc' = IF fn_out'.raised = "" THEN "returned" ELSE "raised"
    /\ UNCHANGED fn_in

CoerceCall == coerce_call /\ UNCHANGED restFn

SpecCoerce == InitCoerce /\ [][CoerceCall]_vars

\* ------------------------------------------------ the dataset merge
MaxOcRows == 2
Tolerance == 5            \* "best_dist > 2.5", in ticks
NeutralScore == 5000      \* "oc = 0.5"
NoTs == -1                \* no "timestamp" cell in the row, no 't' in the record

\* the rows of the OC scores CSV, and the game records
OcRows == [sec : 0..1, timestamp : {NoTs, 2, 10}, oc_score : {2000, 9000}]
GameRecords == [t : {NoTs, 0, 2, 5, 6, 7, 10, 15, 16}, sec : 0..2]

Abs(x) == IF x < 0 THEN -x ELSE x

RECURSIVE InsertPair(_, _)
\* list.sort(key=lambda p: p[0]), one pair at a time: the sort is stable
InsertPair(ps, x) ==
    IF ps = <<>> THEN <<x>>
    ELSE IF x.timestamp < Head(ps).timestamp THEN <<x>> \o ps
    ELSE <<Head(ps)>> \o InsertPair(Tail(ps), x)

RECURSIVE oc_ts_pairs(_)
\* the (timestamp, oc_score) pairs of the rows that have a timestamp, sorted
oc_ts_pairs(rs) ==
    IF rs = <<>> THEN <<>>
    ELSE LET before == oc_ts_pairs(SubSeq(rs, 1, Len(rs) - 1))
             last == rs[Len(rs)]
         IN  IF last.timestamp # NoTs THEN InsertPair(before, last) ELSE before

\* oc_by_sec[int(row["sec"])] = oc_score, row after row: the last row of a
\* sec stays; None where no row has the sec
oc_by_sec(rs, sec) ==
    LET at == {i \in 1..Len(rs) : rs[i].sec = sec}
    IN  IF at = {} THEN [found |-> FALSE, oc |-> 0]
        ELSE [found |-> TRUE, oc |-> rs[CHOOSE i \in at : \A j \in at : j <= i].oc_score]

\* bisect_left(oc_ts_keys, game_ts): the keys below game_ts
bisect_left(ps, game_ts) == Cardinality({i \in 1..Len(ps) : ps[i].timestamp < game_ts})

\* mutant of Candidates: the candidate to the right of the insertion point only
CandidatesRight(idx) == <<idx>>

\* "for candidate in (idx - 1, idx)"
Candidates(idx) == <<idx - 1, idx>>

RECURSIVE nearest(_, _, _, _)
\* the loop over the candidates cs from the k-th on: best is (best_dist, oc),
\* best_dist = NoTs standing for float('inf')
nearest(ps, game_ts, cs, best) ==
    IF cs = <<>> THEN best
    ELSE LET candidate == Head(cs)
             d == Abs(ps[candidate + 1].timestamp - game_ts)
         IN  IF 0 <= candidate /\ candidate < Len(ps) /\ (best.dist = NoTs \/ d < best.dist)
             THEN nearest(ps, game_ts, Tail(cs), [dist |-> d, oc |-> ps[candidate + 1].oc_score])
             ELSE nearest(ps, game_ts, Tail(cs), best)

\* _match_oc_score on the lookup _load_oc_lookup builds from the rows rs
_match_oc_score(record, rs) ==
    LET ps == oc_ts_pairs(rs)
    IN  IF ps # <<>> /\ record.t # NoTs
        THEN LET best == nearest(ps, record.t, Candidates(bisect_left(ps, record.t)),
                                 [dist |-> NoTs, oc |-> NeutralScore])
             IN  IF best.dist = NoTs \/ best.dist > Tolerance
                 THEN [fn |-> "_match_oc_score", oc |-> NeutralScore, matched |-> FALSE]
                 ELSE [fn |-> "_match_oc_score", oc |-> best.oc, matched |-> TRUE]
        ELSE LET hit == oc_by_sec(rs, record.sec)
             IN  IF hit.found
                 THEN [fn |-> "_match_oc_score", oc |-> hit.oc, matched |-> TRUE]
                 ELSE [fn |-> "_match_oc_score", oc |-> NeutralScore, matched |-> FALSE]

InitMatch ==
    /\ InitLive /\ InitNoScore /\ stamped = FALSE
    /\ fn_in \in [fn : {"_match_oc_score"}, record : GameRecords,
                   oc_rows : UNION {[1..n -> OcRows] : n \in 0..MaxOcRows}]
    /\ fn_pc = "call" /\ fn_out = NoFn

match_call ==
    /\ fn_pc = "call" /\ fn_in.fn = "_match_oc_score"
    /\ fn_out' = _match_oc_score(fn_in.record, fn_in.oc_rows)
    /\ fn_pc' = "returned"
    /\ UNCHANGED fn_in

MatchCall == match_call /\ UNCHANGED restFn

SpecMatch == InitMatch /\ [][MatchCall]_vars

\* ------------------------------------------------ filter_dataset
MaxDataRows == 3
OC_CUTOFF == 6000         \* config.OC_CUTOFF = 0.6
NoCutoff == -1            \* cutoff=None, oc_cutoff=None

\* the rows csv.DictReader gives for the dataset: cells are strings, the
\* oc_score cell as build_dataset's writer printed it
DataRows ==
    [decision : {"0", "1"},
     oc_score : {StrScore(k) : k \in {0, 5999, 6000, 6001, ScoreOne}}]

\* "if oc_cutoff is not None: cutoff = oc_cutoff", then the default
cutoff_of(cutoff, oc_cutoff) ==
    LET c == IF oc_cutoff # NoCutoff THEN oc_cutoff ELSE cutoff
    IN  IF c # NoCutoff THEN c ELSE OC_CUTOFF

\* mutant of Keeps: a row at the cutoff is dropped
KeepsAbove(r, cutoff) == ScoreStr(r.oc_score) > cutoff

\* "float(r['oc_score']) >= cutoff"
Keeps(r, cutoff) == ScoreStr(r.oc_score) >= cutoff

\* the rows written to the dirty file and to the clean file
filter_dataset(data, cutoff, oc_cutoff) ==
    [fn |-> "filter_dataset",
     dirty |-> data,
     clean |-> SelectSeq(data, LAMBDA r : Keeps(r, cutoff_of(cutoff, oc_cutoff)))]

InitFilter ==
    /\ InitLive /\ InitNoScore /\ stamped = FALSE
    /\ fn_in \in [fn : {"filter_dataset"},
                   data : UNION {[1..n -> DataRows] : n \in 0..MaxDataRows},
                   cutoff : {NoCutoff, 5999}, oc_cutoff : {NoCutoff, ScoreOne}]
    /\ fn_pc = "call" /\ fn_out = NoFn

filter_call ==
    /\ fn_pc = "call" /\ fn_in.fn = "filter_dataset"
    /\ fn_out' = filter_dataset(fn_in.data, fn_in.cutoff, fn_in.oc_cutoff)
    /\ fn_pc' = "returned"
    /\ UNCHANGED fn_in

FilterCall == filter_call /\ UNCHANGED restFn

SpecFilter == InitFilter /\ [][FilterCall]_vars

\* ------------------------------------------------ Player
MaxMoves == 6
LANE_COUNT == 3
ROAD_LEFT == 90
ROAD_RIGHT == 390
LANE_WIDTH == (ROAD_RIGHT - ROAD_LEFT) \div LANE_COUNT

\* LANE_CENTERS[i]
LANE_CENTERS(i) == ROAD_LEFT + LANE_WIDTH * i + LANE_WIDTH \div 2

\* mutant of InRange: the test lets lane LANE_COUNT in
InRangeLoose(nl) == 0 <= nl /\ nl <= LANE_COUNT

\* "if 0 <= nl < LANE_COUNT"
InRange(nl) == 0 <= nl /\ nl < LANE_COUNT

\* Player(): fn_out is the object, fn_in the calls of move() made on it
InitPlayer ==
    /\ InitLive /\ InitNoScore /\ stamped = FALSE
    /\ fn_in = [fn |-> "Player.move", ds |-> <<>>]
    /\ fn_pc = "returned"
    /\ fn_out = [fn |-> "Player", lane |-> 1, x |-> LANE_CENTERS(1),
                 target_x |-> LANE_CENTERS(1)]

\* Player.move(d)
move(d) ==
    /\ fn_in.fn = "Player.move" /\ Len(fn_in.ds) < MaxMoves
    /\ fn_in' = [fn_in EXCEPT !.ds = Append(@, d)]
    /\ LET nl == fn_out.lane + d
       IN  fn_out' = IF InRange(nl)
                     THEN [fn_out EXCEPT !.lane = nl, !.target_x = LANE_CENTERS(nl)]
                     ELSE fn_out
    /\ UNCHANGED fn_pc

Move == (\E d \in {-1, 1} : move(d)) /\ UNCHANGED restFn

SpecPlayer == InitPlayer /\ [][Move]_vars

\* ------------------------------------------------ the window loops
\* stride_sec in quarter seconds: DEFAULT_STRIDE_SEC and the live 0.25
StrideQuarters == {1, 4}

\* mutant of Fits: the window that ends on the last sample is left out
FitsStrict(at, w, n) == at + w < n

\* "while start + window_samples <= n_samples"
Fits(at, w, n) == at + w <= n

\* stride_samples = max(1, int(round(sample_rate * stride_sec)))
iter_stride(ts, stride_q) == Max(1, RoundHalfEven(WindowRate(ts) * stride_q, 4))

\* the while loop of iter_windows; sec counts quarter seconds
RECURSIVE iter_windows_from(_, _, _, _)
iter_windows_from(ts, stride_q, at, sec) ==
    IF Fits(at, window_samples(ts), Len(ts))
    THEN LET end == at + window_samples(ts)
         IN  <<[sec |-> sec, start_idx |-> at, end_idx |-> end,
                mid_timestamp |-> ts[at + (end - at) \div 2 + 1]]>>
             \o iter_windows_from(ts, stride_q, at + iter_stride(ts, stride_q),
                                  sec + stride_q)
    ELSE <<>>

iter_windows(ts, stride_q) ==
    IF Len(ts) < 2 THEN <<>>
    ELSE IF Len(ts) < window_samples(ts) THEN <<>>
    ELSE iter_windows_from(ts, stride_q, 0, 0)

\* the sliding-window loop of compute_oc_scores and compute_oc_scores_fnirs
RECURSIVE oc_windows_from(_, _, _, _)
oc_windows_from(ts, rate, at, sec) ==
    IF Fits(at, oc_window_samples(rate), Len(ts))
    THEN LET mid == at + oc_window_samples(rate) \div 2
         IN  <<[sec |-> sec, start_idx |-> at,
                end_idx |-> at + oc_window_samples(rate),
                mid_timestamp |-> ts[Min(mid, Len(ts) - 1) + 1]]>>
             \o oc_windows_from(ts, rate, at + oc_stride_samples(rate),
                                sec + STRIDE_SEC)
    ELSE <<>>

oc_rate(mode, ts) == detect_sample_rate(ts, DefaultRate(mode))

\* the loop never ends when the stride is 0 and the first window fits
oc_loops(mode, ts) ==
    /\ oc_stride_samples(oc_rate(mode, ts)) = 0
    /\ Fits(0, oc_window_samples(oc_rate(mode, ts)), Len(ts))

oc_windows(mode, ts) ==
    IF Len(ts) < oc_window_samples(oc_rate(mode, ts)) THEN <<>>
    ELSE oc_windows_from(ts, oc_rate(mode, ts), 0, 0)

\* n samples, `gap` ticks apart
Evenly(n, gap) == [i \in 1..n |-> (i - 1) * gap]

WindowCalls ==
    {[fn |-> "iter_windows", ts |-> Evenly(n, gap), stride_q |-> q] :
        n \in 0..MaxSeries, gap \in 0..MaxGap, q \in StrideQuarters}
    \cup {[fn |-> mode, ts |-> Evenly(n, gap), stride_q |-> 4 * STRIDE_SEC] :
        mode \in Modes, n \in 1..MaxSeries, gap \in 0..MaxGap}

InitWindows ==
    /\ InitLive /\ InitNoScore /\ stamped = FALSE
    /\ fn_in \in WindowCalls /\ fn_pc = "call" /\ fn_out = NoFn

windows_call ==
    /\ fn_pc = "call" /\ fn_in.fn \in Modes \cup {"iter_windows"}
    /\ fn_in.fn \in Modes => ~oc_loops(fn_in.fn, fn_in.ts)
    /\ fn_out' = [fn |-> fn_in.fn,
                  windows |-> IF fn_in.fn = "iter_windows"
                              THEN iter_windows(fn_in.ts, fn_in.stride_q)
                              ELSE oc_windows(fn_in.fn, fn_in.ts)]
    /\ fn_pc' = "returned"
    /\ UNCHANGED fn_in

WindowsCall == windows_call /\ UNCHANGED restFn

SpecWindows == InitWindows /\ [][WindowsCall]_vars

\* ------------------------------------------------ series_from_rows, the channels
MaxSeriesRows == 3

\* a row of the CSV with its red_l cell, and a row with no timestamp to read
SeriesRow(ts, v) == [GoodRow(ts) EXCEPT !["red_l"].v = v]
SeriesRows ==
    {SeriesRow(ts, v) : ts \in 0..1, v \in 6..7}
    \cup {[GoodRow(0) EXCEPT !["timestamp"].ok = FALSE]}

\* np.argsort(timestamps), kind defaulted to "quicksort", which numpy does not
\* keep stable: some order that sorts, ties in any order
argsort(ts) ==
    {order \in [1..Len(ts) -> 1..Len(ts)] :
        /\ \A i, j \in 1..Len(ts) : i # j => order[i] # order[j]
        /\ \A i, j \in 1..Len(ts) : i < j => ts[order[i]] <= ts[order[j]]}

\* arr(key)
arr(coerced, order, key) == [i \in 1..Len(order) |-> coerced[order[i]][key]]

SeriesCalls ==
    [fn : {"series_from_rows"},
     rows : UNION {[1..n -> SeriesRows] : n \in 0..MaxSeriesRows},
     trim : {NoTrim}]

InitSeries ==
    /\ InitLive /\ InitNoScore /\ stamped = FALSE
    /\ fn_in \in SeriesCalls /\ fn_pc = "call" /\ fn_out = NoFn

\* series_from_rows(rows, trim_before = None), two of its channels kept
series_call ==
    /\ fn_pc = "call" /\ fn_in.fn = "series_from_rows"
    /\ LET c == _coerce_rows(fn_in.rows, fn_in.trim)
           stamps == [i \in 1..Len(c.coerced) |-> c.coerced[i].timestamp]
       IN  IF c.raised # ""
           THEN fn_out' = c /\ fn_pc' = "raised"
           ELSE /\ \E order \in argsort(stamps) :
                     fn_out' = [fn |-> "series_from_rows", order |-> order,
                                coerced |-> c.coerced,
                                timestamps |-> [i \in 1..Len(order) |-> stamps[order[i]]],
                                red_l_corr |-> arr(c.coerced, order, "red_l_corr"),
                                amb_l |-> arr(c.coerced, order, "amb_l")]
                /\ fn_pc' = "returned"
    /\ UNCHANGED fn_in

SeriesCall == series_call /\ UNCHANGED restFn

SpecSeries == InitSeries /\ [][SeriesCall]_vars

\* ------------------------------------------------ Python floats
\* A float between -2 and 2 is its sign and its magnitude in binary: mag[1]
\* is the units bit, mag[1 + i] the bit of weight 2^-i. Every operation
\* computes the exact result and rounds it to the 53 significant bits of a
\* double, ties to even.
FracBits == 64
MantissaBits == 53
BitsLen == 1 + FracBits

ZeroBits == SubSeq([i \in 1..BitsLen |-> 0], 1, BitsLen)
OneBits == SubSeq([i \in 1..BitsLen |-> IF i = 1 THEN 1 ELSE 0], 1, BitsLen)

\* the bits of n / d from position i on, r being the remainder so far
RECURSIVE QuotFrom(_, _, _)
QuotFrom(r, d, i) ==
    IF i > BitsLen THEN <<>>
    ELSE <<(2 * r) \div d>> \o QuotFrom((2 * r) % d, d, i + 1)

\* n / d for 0 <= n < 2 * d, cut after FracBits bits
Quot(n, d) == <<n \div d>> \o QuotFrom(n % d, d, 2)

RECURSIVE RemAt(_, _, _)
RemAt(n, d, i) == IF i = 1 THEN n % d ELSE (2 * RemAt(n, d, i - 1)) % d

\* bits of n / d are lost by the cut
Inexact(n, d) == RemAt(n, d, BitsLen) # 0

\* a carry enters position i of a + b: below i some position holds two ones and
\* every position between holds one
CarryIn(a, b, i) ==
    \E j \in (i + 1)..BitsLen :
        a[j] + b[j] = 2 /\ \A k \in (i + 1)..(j - 1) : a[k] + b[k] = 1

AddBits(a, b) ==
    SubSeq([i \in 1..BitsLen |->
               (a[i] + b[i] + (IF CarryIn(a, b, i) THEN 1 ELSE 0)) % 2], 1, BitsLen)

\* a borrow enters position i of a - b: below i, a is less than b
BorrowIn(a, b, i) ==
    \E j \in (i + 1)..BitsLen :
        a[j] < b[j] /\ \A k \in (i + 1)..(j - 1) : a[k] = b[k]

\* a - b for a >= b
SubBits(a, b) ==
    SubSeq([i \in 1..BitsLen |->
               (a[i] - b[i] - (IF BorrowIn(a, b, i) THEN 1 ELSE 0) + 2) % 2], 1, BitsLen)

LessBits(a, b) ==
    \E i \in 1..BitsLen : a[i] < b[i] /\ \A j \in 1..(i - 1) : a[j] = b[j]

\* round to nearest, ties to even; sticky says that b was cut from a longer
\* exact result
RoundBits(b, sticky) ==
    IF \A i \in 1..BitsLen : b[i] = 0 THEN b
    ELSE LET lead == CHOOSE i \in 1..BitsLen :
                        b[i] = 1 /\ \A j \in 1..(i - 1) : b[j] = 0
             last == lead + MantissaBits - 1
         IN  IF last >= BitsLen THEN b
             ELSE LET rest == sticky \/ \E i \in (last + 2)..BitsLen : b[i] = 1
                      up == b[last + 1] = 1 /\ (rest \/ b[last] = 1)
                      kept == SubSeq([i \in 1..BitsLen |-> IF i <= last THEN b[i] ELSE 0],
                                     1, BitsLen)
                      ulp == SubSeq([i \in 1..BitsLen |-> IF i = last THEN 1 ELSE 0],
                                    1, BitsLen)
                  IN  IF up THEN AddBits(kept, ulp) ELSE kept

\* float(n) / float(d) for integers n, d with |n| < 2 * d
float_div(n, d) ==
    [neg |-> n < 0,
     mag |-> RoundBits(Quot(Abs(n), d), Inexact(Abs(n), d))]

\* a - b for a float a >= 0
float_sub(a, b) ==
    IF b.neg THEN [neg |-> FALSE, mag |-> RoundBits(AddBits(a.mag, b.mag), FALSE)]
    ELSE IF LessBits(a.mag, b.mag)
    THEN [neg |-> TRUE, mag |-> RoundBits(SubBits(b.mag, a.mag), FALSE)]
    ELSE [neg |-> FALSE, mag |-> RoundBits(SubBits(a.mag, b.mag), FALSE)]

\* a < b
float_lt(a, b) ==
    IF a.neg /\ ~b.neg THEN a.mag # ZeroBits \/ b.mag # ZeroBits
    ELSE IF ~a.neg /\ b.neg THEN FALSE
    ELSE IF a.neg THEN LessBits(b.mag, a.mag)
    ELSE LessBits(a.mag, b.mag)

Float1 == [neg |-> FALSE, mag |-> OneBits]

\* ------------------------------------------------ GameState
MaxFrames == 150
MaxGameMoves == 1
XScale == 10000           \* player.x is kept to 1/XScale of a pixel
HEIGHT == 720
ROAD_SPEED == 7
SPAWN_INTERVAL == 55
CAR_W == 38
CAR_H == 64
OBS_W == 38
OBS_H == 60
PlayerY == HEIGHT - 120

\* rect() of the player and of an obstacle: (x, y, w, h)
player_rect(gs) ==
    <<gs.x \div XScale - CAR_W \div 2 + 5, PlayerY - CAR_H \div 2 + 5,
      CAR_W - 10, CAR_H - 10>>
obstacle_rect(o) ==
    <<LANE_CENTERS(o.lane) - OBS_W \div 2 + 5, o.y - OBS_H \div 2 + 5,
      OBS_W - 10, OBS_H - 10>>

\* GameState._check_collision on the obstacles obs
_check_collision(gs, obs) ==
    \E i \in 1..Len(obs) :
        LET p == player_rect(gs)
            o == obstacle_rect(obs[i])
        IN  /\ p[1] < o[1] + o[3] /\ p[1] + p[3] > o[1]
            /\ p[2] < o[2] + o[4] /\ p[2] + p[4] > o[2]

\* Obstacle.gone()
gone(o) == o.y > HEIGHT + OBS_H

\* GameState(): fn_out is the object, fn_in counts the calls of step() and the
\* decisions other than 0 among them
InitGame ==
    /\ InitLive /\ InitNoScore /\ stamped = FALSE
    /\ fn_in = [fn |-> "GameState.step", calls |-> 0, moves |-> 0]
    /\ fn_pc = "returned"
    /\ fn_out = [fn |-> "GameState", lane |-> 1, x |-> LANE_CENTERS(1) * XScale,
                 target_x |-> LANE_CENTERS(1) * XScale, obstacles |-> <<>>,
                 spawn_timer |-> 0, alive |-> TRUE, frame |-> 0]

\* GameState.step(decision), rng.randint(0, LANE_COUNT - 1) giving lane
step(decision, lane) ==
    /\ fn_in.fn = "GameState.step" /\ fn_in.calls < MaxFrames
    /\ decision # 0 => fn_in.moves < MaxGameMoves
    /\ fn_in' = [fn_in EXCEPT !.calls = @ + 1,
                              !.moves = IF decision # 0 THEN @ + 1 ELSE @]
    /\ IF ~fn_out.alive
       THEN fn_out' = fn_out
       ELSE LET nl == fn_out.lane + decision
                moved == IF decision # 0 /\ InRange(nl)
                         THEN [fn_out EXCEPT !.lane = nl,
                                             !.target_x = LANE_CENTERS(nl) * XScale]
                         ELSE fn_out
                x1 == moved.x + (moved.target_x - moved.x) \div 5
                spawns == fn_out.spawn_timer + 1 >= SPAWN_INTERVAL
                spawned == IF spawns
                           THEN Append(fn_out.obstacles, [lane |-> lane, y |-> -OBS_H])
                           ELSE fn_out.obstacles
                updated == [i \in 1..Len(spawned) |->
                                [spawned[i] EXCEPT !.y = @ + ROAD_SPEED]]
                kept == SelectSeq(updated, LAMBDA o : ~gone(o))
                after == [moved EXCEPT !.x = x1,
                                       !.spawn_timer = IF spawns THEN 0 ELSE @ + 1,
                                       !.frame = @ + 1,
                                       !.obstacles = kept]
            IN  /\ lane # 0 => spawns      \* randint is called by a spawn only
                /\ fn_out' = [after EXCEPT !.alive = ~_check_collision(after, kept)]
    /\ UNCHANGED fn_pc

Step == (\E decision \in {-1, 0, 1}, lane \in 0..(LANE_COUNT - 1) : step(decision, lane))
        /\ UNCHANGED restFn

SpecGame == InitGame /\ [][Step]_vars

\* GameState.encode()["obs"]: [o.lane, o.y / HEIGHT] for every obstacle
encode_obs(gs) ==
    [i \in 1..Len(gs.obstacles) |->
        <<gs.obstacles[i].lane, float_div(gs.obstacles[i].y, HEIGHT)>>]

\* the loop of get_nearest_obstacles over the obstacles from the i-th on
RECURSIVE nearest_from(_, _, _)
nearest_from(obs, i, distances) ==
    IF i > Len(obs) THEN distances
    ELSE LET o == obs[i]
             norm_dist == float_div(PlayerY - o.y, HEIGHT)
         IN  IF o.y < PlayerY /\ float_lt(norm_dist, distances[o.lane])
             THEN nearest_from(obs, i + 1, [distances EXCEPT ![o.lane] = norm_dist])
             ELSE nearest_from(obs, i + 1, distances)

get_nearest_obstacles(gs) ==
    nearest_from(gs.obstacles, 1, [l \in 0..(LANE_COUNT - 1) |-> Float1])

\* PLAYER_NORM_Y = (HEIGHT - 120) / HEIGHT
PLAYER_NORM_Y == float_div(HEIGHT - 120, HEIGHT)

\* the loop of _compute_nearest_obstacle_distances from the i-th entry on
RECURSIVE distances_from(_, _, _)
distances_from(obstacles_list, i, distances) ==
    IF i > Len(obstacles_list) THEN distances
    ELSE LET lane == obstacles_list[i][1]
             norm_y == obstacles_list[i][2]
             dist == float_sub(PLAYER_NORM_Y, norm_y)
         IN  IF float_lt(norm_y, PLAYER_NORM_Y) /\ float_lt(dist, distances[lane])
             THEN distances_from(obstacles_list, i + 1, [distances EXCEPT ![lane] = dist])
             ELSE distances_from(obstacles_list, i + 1, distances)

_compute_nearest_obstacle_distances(obstacles_list) ==
    distances_from(obstacles_list, 1, [l \in 0..(LANE_COUNT - 1) |-> Float1])

\* ================================================================ claims
IsHeatmap(e) == e.type = "fnirs_heatmap_frame"

C2_OneWorker ==
    [][ /\ Cardinality(AliveWorkers') <= 1
        /\ \A w \in Workers : (~Alive(w) /\ pc'[w] # pc[w]) =>
              /\ AliveWorkers = {}
              /\ AliveWorkers' = {w}
              /\ worker_thread' = w
              /\ \E c \in Callers : outcome'[c] = "started"
        /\ \A c \in Callers : (outcome'[c] = "RuntimeError" /\ outcome[c] # "RuntimeError") =>
              /\ AliveWorkers # {}
              /\ AliveWorkers' = AliveWorkers
              /\ worker_thread' = worker_thread
      ]_vars

\* a connect() was refused while the worker, asked to stop, had not yet exited
C2_Witness ==
    \E c \in Callers : outcome[c] = "RuntimeError" /\ stop_event
                       /\ Cardinality(AliveWorkers) = 1

\* C3: no subscriber queue ever holds more than its capacity, drained or not,
\* and a broadcasting thread can always take its next put/get step: it waits
\* for no subscriber, and outside connect() it does not hold the service lock.
C3_QueueBounded ==
    /\ \A q \in Queues : Len(queue[q]) <= QueueMaxsize
    /\ \A t \in Workers \cup Callers : pc[t] = "bcast" =>
          /\ ENABLED (BcastPut(t) \/ BcastGet(t) \/ BcastPut2(t))
          /\ (t \in Workers => lock # t)

\* a broadcast found a full queue that nobody drained and evicted its oldest event
C3_Witness ==
    \E t \in Workers \cup Callers : \E q \in Queues :
        pc[t] = "bcast" /\ bstep[t] = "put2" /\ cur[t] = q
        /\ Len(queue[q]) = QueueMaxsize - 1

\* C4: when a broadcasting thread is done with a subscriber queue, its payload
\* is the newest element of that queue, also when two threads broadcast at once.
C4_PayloadEnqueued ==
    [][ \A t \in Workers \cup Callers : \A q \in Queues :
           (q \in bq[t] /\ q \notin bq'[t]) =>
               (queue'[q] # <<>> /\ queue'[q][Len(queue'[q])] = pay[t])
      ]_vars

\* C5: a tick that emits (moves the marker) emits a window of its snapshot that
\* is at most latest_sensor_ts - delay and above the last emitted timestamp, and
\* no such window of the snapshot has a greater timestamp; the frame carries
\* display_ts <= sensor_now_ts - delay; a tick whose snapshot has no such window
\* emits nothing.
C5_NewestEligible ==
    [][ \A t \in Workers \cup {Ticker} : (pc[t] = "tick_cas" /\ pc'[t] # "tick_cas") =>
          LET sn == snap[t]
              wts == WindowTimestamps(series_from_rows(sn.rows))
              cutoff == sn.latest - DisplayDelay
              ok == IF Len(sn.rows) < MinRows THEN {}
                    ELSE {k \in 1..Len(wts) : wts[k] <= cutoff /\ wts[k] > sn.last}
              emitted == last_emitted_window_ts' # last_emitted_window_ts
          IN  /\ emitted =>
                    /\ \E k \in ok : wts[k] = last_emitted_window_ts'
                    /\ \A k \in ok : wts[k] <= last_emitted_window_ts'
                    /\ last_emitted_window_ts' > last_emitted_window_ts
              /\ IsHeatmap(pay'[t]) =>
                    /\ emitted
                    /\ pay'[t].ts = last_emitted_window_ts'
                    /\ pay'[t].ts <= pay'[t].now - DisplayDelay
              /\ ok = {} => (~emitted /\ ~IsHeatmap(pay'[t]))
      ]_vars

\* a frame is being broadcast that was chosen among two or more eligible windows
C5_Witness ==
    \E t \in Workers \cup {Ticker} :
        /\ IsHeatmap(pay[t]) /\ pay[t].now = latest_sensor_ts
        /\ LET wts == WindowTimestamps(series_from_rows(rows))
               ok == {k \in 1..Len(wts) : wts[k] <= pay[t].now - DisplayDelay}
           IN  /\ Cardinality({wts[k] : k \in ok}) >= 2
               /\ \A k \in ok : wts[k] <= pay[t].ts

\* C6: once disconnect() has set the stop flag of a running session, the worker
\* leaves its loop by its own steps and ends with connected = streaming = false,
\* its last broadcast being the status event; the flag stays set as long as a
\* worker is alive.
C6_StopLeadsToExit ==
    /\ (AliveWorkers # {} /\ stop_event)
          ~> (AliveWorkers = {} /\ ~connected /\ ~streaming)
    /\ [][ /\ (stop_event /\ AliveWorkers # {}) => stop_event'
           /\ \A w \in Workers : (pc[w] # "done" /\ pc'[w] = "done") =>
                 /\ ~connected' /\ ~streaming'
                 /\ \/ pc[w] = "finally"
                    \/ pc[w] = "bcast" /\ pay[w].type = "fnirs_status" /\ ret[w] = "done"
         ]_vars

\* a worker has exited, without an error, while the stop flag is set
C6_Witness ==
    \E w \in Workers : pc[w] = "done" /\ worker_thread = w /\ stop_event
                       /\ ~last_error /\ ~connected /\ ~streaming

\* C7: a worker that raises records last_error, resets connected and streaming,
\* broadcasts an error event and then the status event and ends; no request
\* thread sees the exception; the session is idle again, so that connect() is
\* accepted, and a connect() that starts a worker clears last_error.
C7_WorkerFailure ==
    [][ /\ \A w \in Workers :
            /\ (pc[w] = "except" /\ pc'[w] # "except") =>
                  /\ last_error' /\ ~connected' /\ ~streaming'
                  /\ IF subscribers = {} THEN pc'[w] = "finally"
                     ELSE pc'[w] = "bcast" /\ pay'[w].type = "fnirs_error"
                          /\ ret'[w] = "finally"
                  /\ \A c \in Callers : outcome'[c] = outcome[c] /\ pc'[c] = pc[c]
            /\ (pc[w] = "bcast" /\ pay[w].type = "fnirs_error" /\ pc'[w] # "bcast") =>
                  pc'[w] = "finally"
            /\ (pc[w] = "finally" /\ pc'[w] # "finally") =>
                  IF subscribers = {} THEN pc'[w] = "done"
                  ELSE pc'[w] = "bcast" /\ pay'[w].type = "fnirs_status" /\ ret'[w] = "done"
            /\ (pc[w] # "done" /\ pc'[w] = "done" /\ last_error) =>
                  /\ last_error' /\ ~connected' /\ ~streaming'
                  /\ ~ConnectRejects'
        /\ worker_thread' # worker_thread => ~last_error'
      ]_vars

\* a failed worker has ended: the error is recorded and the session is idle
C7_Witness ==
    \E w \in Workers : pc[w] = "done" /\ worker_thread = w /\ last_error
                       /\ ~connected /\ ~streaming /\ AliveWorkers = {}

\* the state of the live session
Phase ==
    IF ~Alive(worker_thread) THEN "idle"
    ELSE IF last_error THEN "error"
    ELSE IF streaming THEN "streaming"
    ELSE IF pc[worker_thread] = "bcast" /\ ret[worker_thread] = "done" THEN "idle"
    ELSE "connecting"

PhaseMoves == {<<"idle", "connecting">>, <<"connecting", "streaming">>,
               <<"connecting", "error">>, <<"streaming", "idle">>, <<"error", "idle">>}

FlagsConsistent ==
    /\ streaming => connected
    /\ connected => Alive(worker_thread)

\* only a step of the live worker sets connected or streaming
OnlyWorkerSets ==
    ((connected' /\ ~connected) \/ (streaming' /\ ~streaming)) =>
        /\ Alive(worker_thread) /\ worker_thread' = worker_thread
        /\ pc'[worker_thread] # pc[worker_thread]
        /\ \A c \in Callers : pc'[c] = pc[c]

\* C8 as stated: the session only moves idle -> connecting -> (streaming | error)
\* -> idle; streaming implies connected, connected implies a live worker, only
\* the worker sets the two flags and they are false when the worker ends.
C8_PhaseOrder ==
    [][ /\ Phase' # Phase => <<Phase, Phase'>> \in PhaseMoves
        /\ FlagsConsistent /\ FlagsConsistent'
        /\ OnlyWorkerSets
        /\ \A w \in Workers :
              (pc[w] # "done" /\ pc'[w] = "done") => (~connected' /\ ~streaming')
      ]_vars

\* C8 amended: as C8, with the move streaming -> error of a worker that fails
\* while it streams.
C8_PhaseOrderAmended ==
    [][ /\ Phase' # Phase =>
              <<Phase, Phase'>> \in PhaseMoves \cup {<<"streaming", "error">>}
        /\ FlagsConsistent /\ FlagsConsistent'
        /\ OnlyWorkerSets
        /\ \A w \in Workers :
              (pc[w] # "done" /\ pc'[w] = "done") => (~connected' /\ ~streaming')
      ]_vars

\* a device session that streamed and took samples is in the error state
C8_Witness ==
    Phase = "error" /\ ~mock_mode /\ sample_count > 0 /\ ~streaming /\ ~connected

\* C9: every record compute_oc_scores returns has 0 <= oc_score <= 1.
C9_ScoreRange ==
    sc_pc = "returned" =>
        \A i \in 1..Len(results) :
            0 <= results[i].oc_score /\ results[i].oc_score <= ScoreOne

\* a call returned records that hold the score 0, the score 1 and one between
C9_Witness ==
    /\ sc_pc = "returned"
    /\ \E i, j, k \in 1..Len(results) :
          /\ results[i].oc_score = 0
          /\ results[j].oc_score = ScoreOne
          /\ 0 < results[k].oc_score /\ results[k].oc_score < ScoreOne

\* at most two samples, or fewer samples than WINDOW_SEC takes at the spacing
\* of the rows
ShortRecording ==
    /\ sc_pc \notin {"idle", "call"}
    /\ \/ Len(timestamps) <= 2
       \/ Len(timestamps) * sc_in.gap < WINDOW_SEC * TicksPerSec

\* C10: for a recording shorter than one window, recordings of zero, one or two
\* samples included, compute_oc_scores returns the empty list and does not
\* raise: the call never enters the window loop.
C10_ShortReturnsEmpty ==
    ShortRecording =>
        /\ sc_pc \in {"rate", "returned"}
        /\ sc_pc = "returned" => results = <<>>

BroadcastStatus(q, i) ==
    /\ queue[q][i].type = "fnirs_status"
    /\ i = Len(queue[q]) \/ queue[q][i + 1].type # "fnirs_mesh_init"

\* C12 as stated: no two status events are broadcast to a subscriber less than
\* one second apart, whatever the appends and the connect()/disconnect() calls.
C12_StatusThrottled ==
    \A q \in Queues : \A i, j \in 1..Len(queue[q]) :
        (i < j /\ BroadcastStatus(q, i) /\ BroadcastStatus(q, j))
            => queue[q][j].now - queue[q][i].now >= StatusPeriod

\* C12 amended: the status events of _append_sample are throttled: one is
\* broadcast only by an append that moved last_status_emit to its own time,
\* and that time is a second or more after the one before.
C12_AppendThrottled ==
    [][ /\ last_status_emit' # last_status_emit =>
              /\ last_status_emit' - last_status_emit >= StatusPeriod
              /\ last_status_emit' = clock'
        /\ \A t \in Workers :
              /\ (pc[t] \in {"mock_loop", "mendi_loop"}
                    /\ (pc'[t] = "append_status" \/ (pc'[t] = "bcast" /\ ret'[t] = "append_status")))
                    => (last_status_emit' = clock' /\ last_status_emit' # last_status_emit)
              /\ (pc[t] = "append_status" /\ pc'[t] = "bcast") =>
                    /\ pay'[t].type = "fnirs_status"
                    /\ pay'[t].now = last_status_emit
      ]_vars

\* an append has passed over its status event: the one before is too recent
C12_Witness ==
    /\ sample_count >= 2 /\ last_status_emit > 0
    /\ latest_sensor_ts - last_status_emit > 0
    /\ latest_sensor_ts - last_status_emit < StatusPeriod
    /\ \E w \in Workers : pc[w] \in {"mock_loop", "mendi_loop", "tick_snap"}

\* C13 as stated: every buffered row has timestamp >= latest_sensor_ts - 300 s.
C13_Retention ==
    \A i \in 1..Len(rows) : rows[i] >= latest_sensor_ts - RetentionTicks

\* C13 amended: a buffer of more than 2 rows holds no row older than the
\* horizon, so it spans at most 300 s; of a buffer of 2 rows the newer one is
\* the latest sample, the older one may be of any age.
C13_RetentionAboveTwo ==
    /\ \A i \in 1..Len(rows) :
          (i > 1 \/ Len(rows) > 2) => rows[i] >= latest_sensor_ts - RetentionTicks
    /\ Len(rows) > 2 => rows[Len(rows)] - rows[1] <= RetentionTicks
    /\ rows # <<>> => rows[Len(rows)] = latest_sensor_ts

\* pruning has stopped at two rows and left one row older than the horizon
C13_Witness ==
    /\ sample_count >= 3 /\ Len(rows) = 2
    /\ rows[1] < latest_sensor_ts - RetentionTicks

\* the number of mesh_init events standing in a queue
MeshInits(s) == Cardinality({i \in 1..Len(s) : s[i].type = "fnirs_mesh_init"})

\* C14: mesh_init is sent once per subscription. The step of subscribe() that
\* registers a queue leaves exactly the initial status event followed by one
\* mesh_init event on it; until that step the queue is empty and no broadcast
\* under way has it in its list, so no broadcast event comes before the
\* mesh_init; no other step adds a mesh_init event to any queue, and no
\* broadcast carries a mesh_init payload.
C14_MeshInitOnce ==
    [][ /\ \A q \in Queues :
             /\ q > nqueues => (queue[q] = <<>> /\ \A t \in Threads : q \notin bq[t])
             /\ IF q > nqueues /\ q <= nqueues'
                THEN /\ q \in subscribers'
                     /\ Len(queue'[q]) = 2
                     /\ queue'[q][1].type = "fnirs_status"
                     /\ queue'[q][2].type = "fnirs_mesh_init"
                ELSE MeshInits(queue'[q]) <= MeshInits(queue[q])
        /\ \A t \in Threads : pay'[t].type # "fnirs_mesh_init" ]_vars

\* a subscriber queue where a broadcast event was enqueued behind the mesh_init
C14_Witness ==
    \E q \in subscribers :
        /\ Len(queue[q]) = 2
        /\ queue[q][1].type = "fnirs_mesh_init"
        /\ queue[q][2].type \in {"fnirs_sample_stats", "fnirs_heatmap_frame",
                                  "fnirs_error", "fnirs_status"}

NominalSpan(c) ==
    IF c.fn = "compute_baseline" THEN baseline_rate(c.rate) * DEFAULT_BASELINE_SEC
    ELSE BaselineSec(c.fn)

FloorSpan(c) ==
    IF c.fn = "compute_baseline" THEN baseline_rate(c.rate) * 10 ELSE MIN_BASELINE_SEC

\* C16: a baseline always exists and uses the documented span: it is taken
\* over the first min(nominal span, available data) entries, at least one, and
\* where that span is below the floor it is the entire available series; in
\* the batch scorers and in compute_baseline of the live path.
C16_BaselineSpan ==
    fn_pc = "returned" /\ fn_in.fn \in Modes \cup {"compute_baseline"} =>
        /\ fn_out.n >= 1
        /\ fn_out.n = Min(NominalSpan(fn_in), fn_in.n)
        /\ Min(NominalSpan(fn_in), fn_in.n) < FloorSpan(fn_in) => fn_out.n = fn_in.n

\* a recording of 5 seconds at 2 samples a second, its baseline is all of it
C16_Witness ==
    /\ fn_pc = "returned" /\ fn_in.fn = "compute_baseline"
    /\ fn_in.rate = 2 /\ fn_in.n = 10 /\ fn_out.n = 10

\* a row lacks one of the 11 numeric fields, or holds a non-numeric value there
Malformed(row) == \E f \in Fields : f \notin DOMAIN row \/ ~row[f].ok

\* C17: building a series fails with the invalid-row error whenever any row
\* lacks one of timestamp and the 10 channels ir_l..temp or holds a value
\* that is not a number there, no such row being coerced to a default; and it
\* fails with the empty-series error when no row remains after the
\* trim_before filter.
C17_MalformedRejected ==
    fn_pc \in {"returned", "raised"} /\ fn_in.fn = "_coerce_rows" =>
        IF \E i \in 1..Len(fn_in.rows) : Malformed(fn_in.rows[i])
        THEN fn_out.raised = "Invalid fNIRS CSV row"
        ELSE IF \A i \in 1..Len(fn_in.rows) :
                   fn_in.trim # NoTrim /\ fn_in.rows[i]["timestamp"].v < fn_in.trim
             THEN fn_out.raised = "No valid fNIRS samples found in CSV"
             ELSE fn_out.raised = ""

\* the OC records that carry a timestamp, and the least distance of one to t
Timestamped(rs) == {i \in 1..Len(rs) : rs[i].timestamp # NoTs}

Nearest(rs, t) ==
    {i \in Timestamped(rs) :
        \A j \in Timestamped(rs) : Abs(rs[i].timestamp - t) <= Abs(rs[j].timestamp - t)}

\* C18: for a game record with timestamp t and an OC table that has
\* timestamps, _match_oc_score returns the score of an OC record whose
\* timestamp is nearest to t among all of them when that distance is within
\* 2.5 s, and 0.5, unmatched, otherwise; for a table without timestamps it
\* returns the score of an OC record of the same sec, or 0.5, unmatched.
C18_NearestOrNeutral ==
    fn_pc = "returned" /\ fn_in.fn = "_match_oc_score" =>
        LET rs == fn_in.oc_rows
            t == fn_in.record.t
        IN  /\ (Timestamped(rs) # {} /\ t # NoTs) =>
                  IF \E i \in Nearest(rs, t) : Abs(rs[i].timestamp - t) <= Tolerance
                  THEN /\ fn_out.matched
                       /\ \E i \in Nearest(rs, t) : fn_out.oc = rs[i].oc_score
                  ELSE fn_out.oc = NeutralScore /\ ~fn_out.matched
            /\ Timestamped(rs) = {} =>
                  IF \E i \in 1..Len(rs) : rs[i].sec = fn_in.record.sec
                  THEN /\ fn_out.matched
                       /\ \E i \in 1..Len(rs) :
                             rs[i].sec = fn_in.record.sec /\ fn_out.oc = rs[i].oc_score
                  ELSE fn_out.oc = NeutralScore /\ ~fn_out.matched

\* the record lies between two OC timestamps, nearer to the earlier one, whose
\* score it gets
C18_Witness ==
    /\ fn_pc = "returned" /\ fn_in.fn = "_match_oc_score"
    /\ fn_in.record.t = 5 /\ Len(fn_in.oc_rows) = 2
    /\ fn_in.oc_rows[1].timestamp = 10 /\ fn_in.oc_rows[2].timestamp = 2
    /\ fn_in.oc_rows[1].oc_score # fn_in.oc_rows[2].oc_score
    /\ fn_out.matched /\ fn_out.oc = fn_in.oc_rows[2].oc_score

\* the places of the input rows whose score is at or above the cutoff in force
AtOrAbove(c) ==
    {i \in 1..Len(c.data) :
        ScoreStr(c.data[i].oc_score) >= cutoff_of(c.cutoff, c.oc_cutoff)}

\* C19: filter_dataset writes to the clean file exactly the input rows whose
\* oc_score >= cutoff, a row at the cutoff included, in input order (the k-th
\* clean row is the k-th such input row), and all input rows unchanged to the
\* dirty file.
C19_CleanIsFiltered ==
    fn_pc = "returned" /\ fn_in.fn = "filter_dataset" =>
        /\ fn_out.dirty = fn_in.data
        /\ Len(fn_out.clean) = Cardinality(AtOrAbove(fn_in))
        /\ \A k \in 1..Len(fn_out.clean) :
              \E i \in AtOrAbove(fn_in) :
                  /\ Cardinality({j \in AtOrAbove(fn_in) : j <= i}) = k
                  /\ fn_out.clean[k] = fn_out.dirty[i]

\* the default cutoff 0.6: a row at 0.6 is kept between two rows that are not
C19_Witness ==
    /\ fn_pc = "returned" /\ fn_in.fn = "filter_dataset"
    /\ fn_in.cutoff = NoCutoff /\ fn_in.oc_cutoff = NoCutoff
    /\ Len(fn_in.data) = 3 /\ Len(fn_out.clean) = 1
    /\ fn_in.data[2].oc_score = <<"0", ".", "6">>
    /\ fn_out.clean[1] = fn_in.data[2]

\* the lane is one of 0, 1, 2 and target_x is the centre of that lane
LaneOk(p) == p.lane \in {0, 1, 2} /\ p.target_x = LANE_CENTERS(p.lane)

\* C20: after any sequence of Player.move(d) calls with d in {-1, +1} the
\* lane is in {0, 1, 2} and target_x is the centre of the current lane, from
\* the new Player on; a move inside the range goes to lane + d, a move that
\* would leave the range changes neither lane nor target_x.
C20_LaneInRange ==
    /\ (fn_in.fn = "Player.move" => LaneOk(fn_out))
    /\ [][ fn_in.fn = "Player.move" =>
             LET d == fn_in'.ds[Len(fn_in'.ds)]
             IN  /\ d \in {-1, 1}
                 /\ LaneOk(fn_out')
                 /\ IF fn_out.lane + d \in {0, 1, 2}
                    THEN fn_out'.lane = fn_out.lane + d
                    ELSE fn_out'.lane = fn_out.lane /\ fn_out'.target_x = fn_out.target_x
          ]_vars

\* two moves to the right of a new Player: the second one is refused at lane 2
C20_Witness ==
    /\ fn_in.fn = "Player.move" /\ fn_in.ds = <<1, 1>>
    /\ fn_out.lane = 2 /\ fn_out.target_x = LANE_CENTERS(2)

\* thread t starts the broadcast of a heatmap frame in this step
StartsFrame(t) == ~IsHeatmap(pay[t]) /\ IsHeatmap(pay'[t])

\* C21: the last-emitted marker is updated by compare-and-set. Within a
\* session it never decreases; it is written only by an emission tick, to the
\* tick's candidate, which is strictly greater than the marker of that moment;
\* a frame is broadcast only in the step that raises the marker to the frame's
\* timestamp, so a tick whose candidate does not exceed the marker broadcasts
\* nothing and no window timestamp is emitted twice.
C21_MarkerCompareAndSet ==
    [][ /\ session_id' = session_id => last_emitted_window_ts' >= last_emitted_window_ts
        /\ (session_id' = session_id /\ last_emitted_window_ts' # last_emitted_window_ts) =>
              \E t \in Threads :
                  /\ pc[t] = "tick_cas"
                  /\ last_emitted_window_ts' = Candidate(snap[t])
                  /\ Candidate(snap[t]) > last_emitted_window_ts
        /\ \A t \in Threads :
              /\ StartsFrame(t) =>
                    /\ pay'[t].ts > last_emitted_window_ts
                    /\ last_emitted_window_ts' = pay'[t].ts
              /\ (pc[t] = "tick_cas" /\ pc'[t] # "tick_cas"
                    /\ Candidate(snap[t]) <= last_emitted_window_ts) =>
                    /\ pay'[t] = pay[t]
                    /\ last_emitted_window_ts' = last_emitted_window_ts
                    /\ queue' = queue ]_vars

\* a tick holds a candidate that another tick has emitted since its snapshot
C21_Witness ==
    \E t \in Threads :
        /\ pc[t] = "tick_cas" /\ Candidate(snap[t]) # 0
        /\ snap[t].last < Candidate(snap[t])
        /\ Candidate(snap[t]) <= last_emitted_window_ts

\* C22: window iteration is finite for every finite series: in the sliding
\* window loops of the two batch scorers and of iter_windows the stride in
\* samples is at least 1, whatever the estimated sample rate rounds to, so
\* every turn of "while start + window_samples <= n_samples" moves start on.
C22_StrideAtLeastOne ==
    sc_pc = "loop" =>
        /\ stride_samples(timestamps) >= 1
        /\ oc_stride_samples(sample_rate) >= 1

\* C23: in an emission tick the windows are computed on a copy of the buffer
\* taken under the lock, with the lock released: no thread holds the lock
\* while it computes, _append_sample appends and prunes meanwhile, the copy
\* stays as it was taken until the tick is over, and what the tick then
\* emits is the candidate of the copy.
C23_SnapshotIsolated ==
    /\ \A t \in Threads : pc[t] = "tick_cas" => lock # t
    /\ [][ \A t \in Threads :
             /\ (pc[t] = "tick_cas" /\ pc'[t] = "tick_cas") => snap'[t] = snap[t]
             /\ (pc[t] = "tick_cas" /\ pc'[t] # "tick_cas"
                   /\ last_emitted_window_ts' # last_emitted_window_ts) =>
                   last_emitted_window_ts' = Candidate(snap[t])
             /\ (pc[t] = "tick_cas" /\ pc'[t] # "tick_cas"
                   /\ last_emitted_window_ts' = last_emitted_window_ts) =>
                   (Candidate(snap[t]) = 0 \/ Candidate(snap[t]) <= last_emitted_window_ts)
       ]_vars

\* a tick computes on 8 rows or more while the buffer was pruned to 2 rows
C23_Witness ==
    /\ pc[Ticker] = "tick_cas" /\ Len(snap[Ticker].rows) >= MinRows
    /\ Len(rows) = 2 /\ sample_count > Len(snap[Ticker].rows)
    /\ Candidate(snap[Ticker]) # 0

\* C24: window iteration over n samples with window length W and stride S
\* yields exactly the windows [k*S, k*S + W) for k = 0, 1, 2, ... with
\* k*S + W <= n, in order and no others; the k-th has W samples, sec equal
\* to k strides of time and mid_timestamp the timestamp at index
\* k*S + (W div 2).
WindowLen(in) ==
    IF in.fn = "iter_windows" THEN window_samples(in.ts)
    ELSE oc_window_samples(oc_rate(in.fn, in.ts))

WindowStride(in) ==
    IF in.fn = "iter_windows" THEN iter_stride(in.ts, in.stride_q)
    ELSE oc_stride_samples(oc_rate(in.fn, in.ts))

WindowStarts(in) ==
    {k \in 0..Len(in.ts) : k * WindowStride(in) + WindowLen(in) <= Len(in.ts)}

C24_WindowsExact ==
    (fn_pc = "returned" /\ fn_out.fn \in Modes \cup {"iter_windows"}) =>
        LET W == WindowLen(fn_in)
            S == WindowStride(fn_in)
            ws == fn_out.windows
        IN  /\ Len(ws) = Cardinality(WindowStarts(fn_in))
            /\ \A k \in WindowStarts(fn_in) :
                /\ ws[k + 1].start_idx = k * S
                /\ ws[k + 1].end_idx = k * S + W
                /\ ws[k + 1].end_idx - ws[k + 1].start_idx = W
                /\ ws[k + 1].sec * (IF fn_in.fn = "iter_windows" THEN 1 ELSE 4)
                       = k * fn_in.stride_q
                /\ ws[k + 1].mid_timestamp = fn_in.ts[k * S + (W \div 2) + 1]

C24_Witness ==
    /\ fn_pc = "returned" /\ fn_out.fn = "iter_windows"
    /\ Len(fn_out.windows) >= 3
    /\ WindowStride(fn_in) > 1
    /\ (Len(fn_in.ts) - WindowLen(fn_in)) % WindowStride(fn_in) = 0

\* C25: series_from_rows returns all the valid input rows, ascending by
\* timestamp whatever the input order; rows with equal timestamps keep their
\* input order, and every channel array is permuted by the same order as the
\* timestamps.
SeriesReturned == fn_pc = "returned" /\ fn_out.fn = "series_from_rows"

C25_SortedSameOrder ==
    SeriesReturned =>
        LET n == Len(fn_out.coerced)
        IN  /\ Len(fn_out.timestamps) = n /\ Len(fn_out.red_l_corr) = n
            /\ {fn_out.order[i] : i \in 1..n} = 1..n
            /\ \A i, j \in 1..n : i < j => fn_out.timestamps[i] <= fn_out.timestamps[j]
            /\ \A i \in 1..n :
                /\ fn_out.timestamps[i] = fn_out.coerced[fn_out.order[i]].timestamp
                /\ fn_out.red_l_corr[i] = fn_out.coerced[fn_out.order[i]].red_l_corr
                /\ fn_out.amb_l[i] = fn_out.coerced[fn_out.order[i]].amb_l

\* the one order that sorts and keeps rows of equal timestamp in input order
StableOrders(coerced) ==
    {o \in argsort([i \in 1..Len(coerced) |-> coerced[i].timestamp]) :
        \A i, j \in 1..Len(coerced) :
            (i < j /\ coerced[o[i]].timestamp = coerced[o[j]].timestamp) => o[i] < o[j]}

\* C25 as stated: sorted, the channels in the order of the timestamps, and
\* rows of equal timestamp in their input order.
C25_SortedStable ==
    /\ C25_SortedSameOrder
    /\ SeriesReturned =>
        \E o \in StableOrders(fn_out.coerced) :
            /\ fn_out.red_l_corr = arr(fn_out.coerced, o, "red_l_corr")
            /\ fn_out.amb_l = arr(fn_out.coerced, o, "amb_l")

\* C26: after unsubscribe(q) has returned, no event is ever enqueued into q
\* again, however unsubscribe interleaves with a _broadcast on another thread.
Unsubscribed(q) == q <= nqueues /\ q \notin subscribers

C26_NoPutAfterUnsubscribe ==
    [][\A q \in Queues : Unsubscribed(q) => Len(queue'[q]) <= Len(queue[q])]_vars

\* C27: a connect() rejected because a worker is alive changes nothing:
\* session_id, sample_count, the buffer, last_emitted_window_ts, last_error,
\* mock_mode, connected, streaming and the stop flag are as before the call,
\* and no event is broadcast.
Rejected(c) ==
    /\ pc[c] = "idle" /\ lock = 0 /\ ConnectRejects
    /\ outcome[c] # "RuntimeError" /\ outcome'[c] = "RuntimeError"

C27_RejectedConnectChangesNothing ==
    [][\A c \in Callers : Rejected(c) =>
          /\ UNCHANGED <<session_id, sample_count, rows, last_emitted_window_ts,
                         last_error, mock_mode, connected, streaming, stop_event>>
          /\ UNCHANGED <<queue, pay, bq>> /\ pc'[c] = "idle"]_vars

C27_Witness ==
    \E c \in Callers :
        /\ outcome[c] = "RuntimeError" /\ pc[c] = "idle"
        /\ Alive(worker_thread) /\ stop_event /\ sample_count > 0
        /\ subscribers # {}

\* C28: a successful connect() starts a fresh session (sample_count 0, empty
\* buffer, last_emitted_window_ts -infinity, last_error and stop flag cleared,
\* a new session_id) and leaves the subscriber set and the events already
\* queued unchanged, so the subscribers registered before it receive the new
\* session's events; disconnect() leaves the subscriber set, the buffer and
\* the counters unchanged.
Connects == session_id' # session_id

FreshSession ==
    /\ sample_count' = 0 /\ rows' = <<>> /\ last_emitted_window_ts' = NegInf
    /\ last_error' = FALSE /\ stop_event' = FALSE
    /\ \A q \in 1..nqueues : \A i \in 1..Len(queue[q]) : queue[q][i].sid # session_id'
    /\ subscribers' = subscribers /\ queue' = queue
    /\ \A c \in Callers : pc[c] = "idle" /\ pc'[c] # "idle" =>
          bq'[c] = subscribers /\ pay'[c].sid = session_id'

\* a step of thread c inside _broadcast
BroadcastStep(c) ==
    pc[c] = "bcast" /\ (bstep'[c] # bstep[c] \/ bq'[c] # bq[c] \/ pc'[c] # pc[c])

\* the step of c, in _broadcast, leaves q as it is or appends its payload
KeepsQueued(c, q) ==
    queue'[q] = queue[q] \/ queue'[q] = Append(queue[q], pay[c])

\* the same, or q was found full by put_nowait and loses the oldest event it
\* holds by now
KeepsQueuedUnlessFull(c, q) ==
    KeepsQueued(c, q)
    \/ (bstep[c] = "get" /\ cur[c] = q /\ queue'[q] = Tail(queue[q]))

DisconnectStep(c) ==
    \/ pc[c] = "idle" /\ pc'[c] = "disconnect_bcast"
    \/ pc[c] = "disconnect_bcast" /\ pc'[c] # pc[c]
    \/ lock # c /\ BroadcastStep(c)

DisconnectKeeps ==
    UNCHANGED <<subscribers, rows, sample_count, last_status_emit, latest_sensor_ts,
                last_emitted_window_ts, session_id>>

Spans ==
    /\ rows # <<>>
    /\ rows[Len(rows)] - rows[1] > DisplayDelay + 4 * TicksPerSec

\* samples are still to come: the stream goes on
MoreToCome(k) == sample_count + k <= SteadySamples

SampleTimes == {InitClock + k * g : k \in 1..SteadySamples, g \in SteadyGaps}

Ahead(gs, l) == {i \in 1..Len(gs.obstacles) :
                    gs.obstacles[i].lane = l /\ gs.obstacles[i].y < PlayerY}

InUnitInterval(f) == ~f.neg /\ f.mag # ZeroBits /\ ~float_lt(Float1, f)

C30_NearestInRange ==
    fn_out.fn = "GameState" =>
        \A l \in 0..(LANE_COUNT - 1) :
            LET d == get_nearest_obstacles(fn_out)[l]
                e == _compute_nearest_obstacle_distances(encode_obs(fn_out))[l]
            IN  /\ InUnitInterval(d) /\ InUnitInterval(e)
                /\ Ahead(fn_out, l) = {} => d = Float1 /\ e = Float1
                /\ Ahead(fn_out, l) # {} =>
                      \E i \in Ahead(fn_out, l) :
                          /\ d = float_div(PlayerY - fn_out.obstacles[i].y, HEIGHT)
                          /\ \A j \in Ahead(fn_out, l) :
                                fn_out.obstacles[j].y <= fn_out.obstacles[i].y

\* C30 as stated: the range and meaning of the distances, and the two
\* functions returning the same floats.
C30_DistancesAgree ==
    /\ C30_NearestInRange
    /\ fn_out.fn = "GameState" =>
          _compute_nearest_obstacle_distances(encode_obs(fn_out))
              = get_nearest_obstacles(fn_out)

====
